---- MODULE Spec2Model ----
(***************************************************************************)
(* Aura Tarot Dream Analyzer: dream text -> six-dimensional emotion        *)
(* vector -> procedural poster and tarot text.                             *)
(*                                                                         *)
(* Two generations of the code are modelled side by side:                  *)
(*   - app.py, the all-in-one Streamlit script (its own extractor,         *)
(*     poster engine and the request flow), and                            *)
(*   - the package src/ (emotion_model.py, generator.py, analyzer.py).     *)
(*                                                                         *)
(* Numbers.  Every float of the program is a fixed-point integer counting  *)
(* units of 1/Scale.  Scale is chosen so that every value the extractors   *)
(* can produce, and every threshold of the program, is a whole number of   *)
(* units (see ExactNormalisation).                                         *)
(*                                                                         *)
(* Dictionaries are sequences of <<key, value>> pairs, in insertion order, *)
(* as Python dicts are.                                                    *)
(***************************************************************************)
EXTENDS Integers, Sequences, FiniteSets, TLC

VARIABLES
    client,           \* app.py:40  is an OpenAI client configured
    dream_text,       \* app.py:464 the text area / the text argument
    poster_style,     \* app.py:445 the style selector / the style argument
    multi_variation,  \* app.py:450 the "two variations" checkbox
    pc,               \* position in the script / in the harness
    response,         \* app.py:90  what the remote service answered
    ai_result,        \* app.py:485 result dict (or None) of the analysis
    used_model,       \* app.py:490 label of the model used
    emotions,         \* app.py:495 the emotion vector in use
    figs,             \* the poster figures produced, in order
    rng,              \* state of the process-wide `random` generator
    runs,             \* how many times the script has run
    calls             \* harness: the calls made so far, with their results

vars == <<client, dream_text, poster_style, multi_variation, pc, response,
          ai_result, used_model, emotions, figs, rng, runs, calls>>

None == [none |-> TRUE]

-----------------------------------------------------------------------------
(* Bounds of the model                                                     *)

MaxWords == 2
MaxCalls == 2
MaxRuns == 2
MaxDraws == 1
MaxDrawings == 1

-----------------------------------------------------------------------------
(* Fixed-point numbers                                                     *)

\* units per 1.0: divisible by 20 (steps of 0.05) and by every max_v that
\* emotion_model.py can divide by (3, 4, 6, 7, 8, 9, 11 tenths)
Scale == 8 * 9 * 5 * 7 * 11

\* the decimal literal n/d
Frac(n, d) == (n * Scale) \div d

Max2(a, b) == IF a >= b THEN a ELSE b
Min2(a, b) == IF a <= b THEN a ELSE b

-----------------------------------------------------------------------------
(* Dictionaries in insertion order                                         *)

Keys(d) == [i \in 1..Len(d) |-> d[i][1]]
Values(d) == [i \in 1..Len(d) |-> d[i][2]]
HasKey(d, k) == \E i \in 1..Len(d) : d[i][1] = k
Get(d, k) == d[CHOOSE i \in 1..Len(d) : d[i][1] = k][2]
GetOr(d, k, dflt) == IF HasKey(d, k) THEN Get(d, k) ELSE dflt
\* d[k] = v: an existing key keeps its place, a new key goes last
Put(d, k, v) ==
    IF HasKey(d, k)
    THEN [i \in 1..Len(d) |-> IF d[i][1] = k THEN <<k, v>> ELSE d[i]]
    ELSE Append(d, <<k, v>>)

SeqMax(s) == CHOOSE m \in {s[i] : i \in 1..Len(s)} : \A i \in 1..Len(s) : s[i] <= m
SeqMin(s) == CHOOSE m \in {s[i] : i \in 1..Len(s)} : \A i \in 1..Len(s) : s[i] >= m
RECURSIVE SeqSum(_)
SeqSum(s) == IF s = <<>> THEN 0 ELSE Head(s) + SeqSum(Tail(s))

\* the six dimensions, in the order both extractors create them
Dims == <<"Fear", "Desire", "Calm", "Mystery", "Connection", "Transformation">>

-----------------------------------------------------------------------------
(* Strings: str.lower(), substring test, re.findall(r"[a-z]+", s)          *)

UpperChars == "ABCDEFGHIJKLMNOPQRSTUVWXYZ"
LowerChars == "abcdefghijklmnopqrstuvwxyz"
Letters == {SubSeq(LowerChars, i, i) : i \in 1..26}
LowerOf == [c \in {SubSeq(UpperChars, i, i) : i \in 1..26} |->
               LET i == CHOOSE j \in 1..26 : SubSeq(UpperChars, j, j) = c
               IN  SubSeq(LowerChars, i, i)]

LowerChar(c) == IF c \in DOMAIN LowerOf THEN LowerOf[c] ELSE c

\* the characters lo..hi of s, lower-cased (halving keeps the recursion shallow)
RECURSIVE LowerRange(_, _, _)
LowerRange(s, lo, hi) ==
    IF lo > hi THEN ""
    ELSE IF lo = hi THEN LowerChar(SubSeq(s, lo, lo))
    ELSE LET mid == (lo + hi) \div 2
         IN  LowerRange(s, lo, mid) \o LowerRange(s, mid + 1, hi)

\* str.lower()
Lower(s) == LowerRange(s, 1, Len(s))

\* `w in s` for strings
Contains(s, w) ==
    \E i \in 1..(Len(s) - Len(w) + 1) : SubSeq(s, i, i + Len(w) - 1) = w

\* s.find(w): the first index (from 1) at which w occurs, 0 when it does not
FindIndex(s, w) ==
    IF Contains(s, w)
    THEN CHOOSE i \in 1..(Len(s) - Len(w) + 1) :
            /\ SubSeq(s, i, i + Len(w) - 1) = w
            /\ \A j \in 1..(i - 1) : SubSeq(s, j, j + Len(w) - 1) # w
    ELSE 0

\* the characters str.strip() removes that a text area can hold
Whitespace == {" ", "\t", "\n", "\r"}

\* a check of the empty string alone
IsBlankEmptyOnly(s) == s = ""

\* str.strip() == "": nothing but whitespace
IsBlank(s) == \A i \in 1..Len(s) : SubSeq(s, i, i) \in Whitespace

\* the key set of Counter(re.findall(r"[a-z]+", s)): the maximal runs of
\* the letters a-z
FindAllWords(s) ==
    LET n == Len(s)
        isLetter == [i \in 1..n |-> SubSeq(s, i, i) \in Letters]
        starts == {i \in 1..n : isLetter[i] /\ (i = 1 \/ ~isLetter[i - 1])}
        EndOf(i) == CHOOSE j \in i..n :
                        /\ \A k \in i..j : isLetter[k]
                        /\ (j = n \/ ~isLetter[j + 1])
    IN  {SubSeq(s, i, EndOf(i)) : i \in starts}

-----------------------------------------------------------------------------
(* Function results: a returned value or a raised exception                *)

Return(v) == [raised |-> "", value |-> v]
Raise(exc) == [raised |-> exc, value |-> None]

\* d[k] += x
Add(d, k, x) == Put(d, k, Get(d, k) + x)

-----------------------------------------------------------------------------
(* src/src/emotion_model.py: rule_based_emotion_model                      *)

PkgFearWords == {"afraid", "scared", "fear", "terrified", "nightmare",
                 "dark", "shadow", "monster", "chasing", "chase",
                 "run", "running", "falling", "lost"}
PkgDesireWords == {"love", "loved", "kiss", "want", "wish",
                   "longing", "desire", "romantic", "date"}
PkgCalmWords == {"floating", "fly", "flying", "calm", "quiet", "peaceful"}
PkgWaterWords == {"sea", "ocean", "water", "lake", "river", "waves"}
PkgMysteryWords == {"strange", "weird", "unknown", "portal", "door",
                    "fog", "smoke", "mysterious", "secret"}
PkgConnectionWords == {"family", "friend", "friends", "together",
                       "group", "people", "crowd", "someone"}
\* mutant: "light" taken for a transformation word
PkgTransformWordsLight == {"change", "changed", "transform", "transformation",
                           "reborn", "rebirth", "door", "gate", "opening",
                           "melting", "reforming", "new", "light"}
PkgTransformWords == {"change", "changed", "transform", "transformation",
                      "reborn", "rebirth", "door", "gate", "opening",
                      "melting", "reforming", "new"}

\* the base value of every dimension
PkgBase == Frac(1, 10)

\* an extractor that starts every dimension at zero
PkgBaseVectorZero == [i \in 1..6 |-> <<Dims[i], 0>>]
\* the base values every dimension starts from
PkgBaseVector == [i \in 1..6 |-> <<Dims[i], PkgBase>>]

\* has_any(cands): some candidate is a word of the text
HasAny(counts, cands) == \E w \in cands : w \in counts

\* the accumulated (not yet normalised) values
PkgAccumulate(text) ==
    LET counts == FindAllWords(Lower(text))
        e0 == PkgBaseVector
        e1 == IF HasAny(counts, PkgFearWords)
              THEN Add(e0, "Fear", Frac(5, 10)) ELSE e0
        e2 == IF "tunnel" \in counts \/ "underground" \in counts
              THEN Add(Add(e1, "Fear", Frac(2, 10)), "Mystery", Frac(2, 10)) ELSE e1
        e3 == IF "exam" \in counts \/ "test" \in counts
              THEN Add(Add(e2, "Fear", Frac(3, 10)), "Desire", Frac(2, 10)) ELSE e2
        e4 == IF HasAny(counts, PkgDesireWords)
              THEN Add(e3, "Desire", Frac(5, 10)) ELSE e3
        e5 == IF HasAny(counts, PkgCalmWords) \/ HasAny(counts, PkgWaterWords)
              THEN Add(Add(e4, "Calm", Frac(5, 10)), "Mystery", Frac(1, 10)) ELSE e4
        e6 == IF HasAny(counts, PkgMysteryWords)
              THEN Add(e5, "Mystery", Frac(5, 10)) ELSE e5
        e7 == IF HasAny(counts, PkgConnectionWords)
              THEN Add(e6, "Connection", Frac(5, 10)) ELSE e6
        e8 == IF HasAny(counts, PkgTransformWords)
              THEN Add(e7, "Transformation", Frac(5, 10)) ELSE e7
    IN  e8

\* mutant: the divisor is the sum of the values
PkgMaxVSum(e) == IF SeqSum(Values(e)) = 0 THEN Scale ELSE SeqSum(Values(e))
\* mutant: the divisor is the range of the values, unguarded (min-max scaling)
PkgMaxVRange(e) == SeqMax(Values(e)) - SeqMin(Values(e))
\* max_v = max(emotions.values()) or 1.0
PkgMaxV(e) == IF SeqMax(Values(e)) = 0 THEN Scale ELSE SeqMax(Values(e))

\* min(1.0, emotions[k] / max_v)
PkgScaled(v, max_v) == Min2(Scale, (v * Scale) \div max_v)

\* the normalisation loop; a zero divisor raises
PkgNormalize(e) ==
    LET max_v == PkgMaxV(e)
    IN  IF max_v = 0 THEN Raise("ZeroDivisionError")
        ELSE Return([i \in 1..Len(e) |-> <<e[i][1], PkgScaled(e[i][2], max_v)>>])

PkgResultDict(e) ==
    << <<"symbolic_summary", "This is a rule-based interpretation that detects words">>,
       <<"emotions", e>>,
       <<"tarot_shadow", "Your subconscious is processing these mixed feelings">>,
       <<"tarot_energy", "The aura around this dream is a blend">>,
       <<"tarot_guidance", "Notice which part of the dream felt the strongest.">> >>

PkgRuleBasedEmotionModel(text) ==
    LET n == PkgNormalize(PkgAccumulate(text))
    IN  IF n.raised # "" THEN n ELSE Return(PkgResultDict(n.value))

-----------------------------------------------------------------------------
(* src/app.py: rule_based_emotion_model                                    *)

AppFearWords == <<"chase", "chasing", "afraid", "scared", "dark", "monster",
                  "run away", "fall", "falling", "exam">>
AppDesireWords == <<"kiss", "love", "want", "wish", "date", "beautiful",
                    "pretty", "wedding">>
AppCalmWords == <<"sea", "ocean", "beach", "floating", "fly", "flying", "sky",
                  "calm", "peaceful">>
AppMysteryWords == <<"fog", "unknown", "strange", "mystery", "mysterious",
                     "shadow", "portal">>
AppConnectionWords == <<"family", "friend", "friends", "together", "hug",
                        "group", "people">>
AppTransformWords == <<"change", "transform", "transformation", "reborn",
                       "rebirth", "bridge", "door", "threshold">>

AppBase == Frac(2, 10)

AppBaseVector == [i \in 1..6 |-> <<Dims[i], AppBase>>]

\* boost(name, value): emotions[name] = emotions.get(name, 0.0) + value
Boost(e, name, value) == Put(e, name, GetOr(e, name, 0) + value)

\* for w in words: if w in text_lower: boost(name, 0.2)
RECURSIVE BoostEach(_, _, _, _, _)
BoostEach(e, name, words, text_lower, i) ==
    IF i > Len(words) THEN e
    ELSE BoostEach(IF Contains(text_lower, words[i])
                   THEN Boost(e, name, Frac(2, 10)) ELSE e,
                   name, words, text_lower, i + 1)

AppAccumulate(text) ==
    LET t == Lower(text)
        e1 == BoostEach(AppBaseVector, "Fear", AppFearWords, t, 1)
        e2 == BoostEach(e1, "Desire", AppDesireWords, t, 1)
        e3 == BoostEach(e2, "Calm", AppCalmWords, t, 1)
        e4 == BoostEach(e3, "Mystery", AppMysteryWords, t, 1)
        e5 == BoostEach(e4, "Connection", AppConnectionWords, t, 1)
        e6 == BoostEach(e5, "Transformation", AppTransformWords, t, 1)
        e7 == IF Contains(t, "exam") \/ Contains(t, "test")
              THEN Boost(Boost(e6, "Fear", Frac(1, 10)), "Desire", Frac(1, 10)) ELSE e6
        e8 == IF Contains(t, "water") \/ Contains(t, "sea") \/ Contains(t, "ocean")
              THEN Boost(Boost(e7, "Mystery", Frac(1, 10)), "Calm", Frac(5, 100)) ELSE e7
    IN  e8

\* mutant: the upper clamp is forgotten
AppClampNoCeiling(v) == Max2(0, v)
\* max(0.0, min(1.0, v))
AppClamp(v) == Max2(0, Min2(Scale, v))

AppClampAll(e) == [i \in 1..Len(e) |-> <<e[i][1], AppClamp(e[i][2])>>]

AppResultDict(e) ==
    << <<"symbolic_summary", "This is a simplified, rule-based interpretation of your dream.">>,
       <<"emotions", e>>,
       <<"tarot_shadow", "Your subconscious is trying to work with these mixed emotions">>,
       <<"tarot_energy", "The aura energy here is a blend of tension and curiosity.">>,
       <<"tarot_guidance", "Take time to name how you feel in waking life">> >>

AppRuleBasedEmotionModel(text) == Return(AppResultDict(AppClampAll(AppAccumulate(text))))

-----------------------------------------------------------------------------
(* The process-wide generator of the `random` module                       *)
(*                                                                         *)
(* A state is the seed last given to random.seed and the number of 32-bit  *)
(* words drawn since.  MT0 and MT7 are the first words CPython's Mersenne  *)
(* Twister yields after random.seed(0) and random.seed(7), cut to their    *)
(* top 12 bits; a draw is known to within 1/DrawUnit.                      *)

MT0 ==
    <<
        3458, 1577, 3104, 3646, 1722, 165, 1060, 3954, 2094, 1990, 1658, 3761, 3210, 3399, 1242, 3964,
        1952, 1466, 2389, 3652, 3719, 894, 2067, 570, 1154, 572, 3095, 388, 2532, 3274, 1026, 4043,
        3726, 2181, 4025, 2888, 3318, 2465, 3695, 601, 1270, 404, 2989, 302, 3681, 3483, 2801, 1352,
        1933, 2292, 412, 1449, 1778, 1295, 2502, 2623, 3739, 837, 3959, 2263, 1953, 1813, 3544, 2135,
        1066, 255, 3297, 3762, 2247, 3751, 57, 382, 2947, 3441, 1633, 2909, 3378, 3215, 2736, 2561,
        4, 2506, 2021, 3391, 3553, 1364, 999, 2991, 1332, 2882, 3565, 257, 782, 3756, 2324, 908,
        977, 3290, 3963, 583, 3289, 2224, 1834, 373, 329, 4068, 1310, 3584, 2080, 4087, 3820, 2004,
        446, 1234, 2257, 1192, 2894, 511, 2242, 1362, 3336, 3777, 2213, 832, 3947, 3274, 2470, 2241,
        2406, 1178, 1822, 375, 2442, 3268, 1576, 1298, 2357, 991, 1189, 753, 775, 3364, 764, 135,
        2509, 4019, 2689, 1065, 1951, 282, 367, 2780, 3103, 533, 3591, 612, 3782, 158, 3450, 328,
        3678, 2864, 3780, 3397, 2214, 2799, 1602, 3431, 2888, 2148, 1128, 2137, 3324, 964, 3479, 881,
        3666, 2783, 2415, 3380, 3890, 1717, 2374, 1127, 1845, 2017, 2704, 2626, 4080, 2868, 3755, 4024,
        3249, 1463, 337, 1328, 2509, 472, 1992, 2404, 2581, 1373, 3461, 779, 995, 66, 2996, 1110,
        479, 2889, 903, 1523, 3254, 698, 1362, 1745, 3341, 254, 412, 3207, 599, 3503, 2857, 896,
        185, 3346, 2350, 2597, 3727, 3835, 2188, 2466, 2787, 303, 109, 509, 2600, 772, 2483, 3400,
        2359, 490, 1602, 374, 1516, 3415, 4016, 475, 149, 2480, 88, 797, 3936, 3975, 757, 2941,
        507, 1962, 862, 2978, 3279, 250, 3837, 2782, 93, 2229, 1743, 2541, 415, 3423, 1064, 286,
        904, 294, 2649, 1233, 1434, 1786, 738, 250, 2062, 1913, 161, 2443, 413, 2864, 4047, 1602,
        816, 1065, 1468, 3704, 2996, 1926, 3433, 3695, 3762, 2333, 693, 2857, 2755, 833, 3958, 3143,
        237, 3230, 2769, 648, 3462, 663, 1402, 2168, 1026, 480, 2444, 3774, 1811, 2726, 716, 54,
        1931, 2790, 1678, 3686, 2331, 3583, 2083, 3758, 1275, 2658, 1462, 1591, 3431, 2693, 1027, 628,
        2296, 2829, 50, 1875, 3037, 323, 1375, 3027, 187, 2229, 1150, 552, 983, 3121, 3904, 1973,
        1442, 2499, 1179, 2758, 1471, 2417, 3878, 3653, 2595, 3497, 2543, 542, 2931, 1270, 1589, 3065,
        1697, 3395, 2665, 330, 6, 2435, 787, 2861, 1369, 655, 980, 913, 2610, 1835, 1550, 2909,
        3585, 2759, 2327, 3582, 1697, 129, 1647, 3570, 2874, 2324, 1713, 3162, 2712, 2904, 191, 678,
        1824, 261, 1061, 2873, 645, 1828, 2160, 3624, 1995, 3719, 2299, 2473, 3094, 0, 3620, 159,
        2025, 1335, 1278, 3431, 1912, 204, 3313, 3369, 3584, 3990, 3327, 1700, 770, 2246, 4093, 3944,
        2593, 4008, 341, 3430, 2971, 534, 4042, 60, 1645, 3889, 2779, 1710, 1295, 13, 874, 58,
        2938, 3091, 9, 4015, 3369, 2767, 2164, 2507, 400, 780, 487, 2491, 2659, 813, 3578, 1238,
        1146, 2820, 4007, 746, 410, 1948, 3497, 3779, 1624, 2570, 333, 89, 1125, 3743, 1855, 3276,
        3245, 474, 3528, 1050, 546, 2677, 2133, 3347, 2665, 2641, 1421, 471, 3571, 632, 1140, 3486,
        76, 173, 166, 842, 2789, 1063, 2287, 1289, 3876, 1502, 3843, 2324, 3726, 3479, 172, 3466,
        3068, 3937, 2872, 2488, 2684, 2025, 2917, 2638, 3697, 1878, 2622, 1783, 1525, 3569, 2203, 730,
        851, 1538, 2404, 1192, 36, 567, 618, 1111, 1365, 1382, 3234, 1504, 2942, 383, 1385, 3192,
        2541, 146, 168, 1104, 671, 612, 4021, 2389, 1185, 1478, 1617, 4052, 2246, 531, 1201, 470,
        1958, 2992, 981, 3824, 197, 1261, 735, 3510, 2142, 2984, 290, 1239, 1651, 3422, 1345, 1225,
        1698, 445, 407, 2297, 3721, 1970, 1941, 1380, 3444, 3268, 3998, 3327, 1407, 509, 1962, 475,
        2865, 2038, 1747, 154, 1236, 1372, 3009, 2814, 3663, 637, 3767, 682, 2567, 2312, 1538, 3301,
        3991, 4061, 2616, 356, 269, 3308, 346, 811, 3071, 905, 250, 1576, 32, 401, 1613, 2279,
        2125, 1187, 1837, 3768, 2001, 3228, 2395, 2926, 2782, 889, 1732, 342, 1508, 901, 4048, 4092,
        1068, 2397, 3183, 682, 1766, 786, 1468, 471, 261, 3366, 3537, 3493, 2875, 113, 3698, 2153,
        1849, 3081, 2772, 826, 487, 2036, 1630, 1050, 848, 2625, 172, 4083, 3882, 3266, 884, 2553,
        599, 428, 810, 1877, 1548, 1481, 2238, 3387, 619, 429, 4049, 2442, 4026, 1998, 607, 2309,
        1662, 2614, 2784, 1733, 3594, 2134, 2029, 2782, 3756, 3636, 1320, 3414, 2041, 4088, 2042, 2601,
        2744, 3582, 827, 2223, 2497, 3814, 896, 39, 1393, 2890, 3942, 3059, 3682, 1303, 3351, 1318,
        145, 2150, 607, 3581, 1052, 2468, 3211, 638, 3450, 1552, 2387, 1205, 2941, 2893, 3305, 1926,
        271, 3276, 346, 2115, 3558, 3749, 161, 271, 921, 534, 166, 1230, 62, 3108, 3456, 1837,
        1354, 3530, 658, 3279, 609, 3558, 2687, 1887, 3967, 1520, 2068, 1565, 3690, 2170, 2057, 137,
        2350, 371, 2779, 3252, 3297, 2121, 3104, 2458, 4057, 312, 3059, 1746, 3710, 3090, 844, 1186,
        2193, 3691, 2451, 1711, 3382, 3983, 1975, 3463, 3240, 3982, 1591, 2488, 2401, 956, 3486, 3542,
        3268, 83, 2691, 3626, 0, 3034, 745, 1238, 2076, 2335, 1042, 1362, 268, 2021, 3522, 1073,
        3862, 3379, 1240, 3164, 1671, 1573, 3317, 1571, 255, 670, 2625, 3831, 521, 978, 1175, 2987,
        3399, 1368, 227, 3857, 147, 1971, 1711, 577, 2014, 3645, 3536, 2465, 2937, 334, 2758, 2861,
        620, 3318, 4041, 1444, 1684, 144, 2505, 1909, 1583, 1879, 192, 415, 1928, 3187, 620, 82,
        132, 2450, 2528, 543, 2580, 1326, 431, 2867, 2249, 2658, 1419, 798, 1570, 3208, 3180, 3184,
        2008, 454, 3609, 246, 2499, 2870, 1913, 2516, 2589, 3825, 1383, 2664, 509, 3971, 2795, 2922,
        2547, 1213, 3229, 3478, 520, 3925, 3734, 1587, 3274, 1203, 3755, 3054, 3573, 3922, 2789, 4027,
        3318, 497, 2125, 3524, 3217, 4078, 774, 156, 3203, 1605, 1820, 1521, 3099, 780, 1865, 1460,
        3234, 2588, 308, 3917, 182, 3694, 3826, 163, 1991, 1046, 3690, 109, 3869, 2130, 2730, 2331,
        2342, 3587, 884, 940, 382, 3179, 3356, 3623, 3640, 2569, 3192, 2057, 2861, 2145, 1720, 2077,
        1250, 3872, 464, 596, 1744, 3652, 2318, 1728, 3780, 344, 3832, 429, 1702, 257, 406, 1700,
        3169, 639, 3007, 3909, 125, 3241, 1829, 1765, 2811, 1708, 123, 2034, 3765, 3539, 3941, 1329,
        2959, 1034, 321, 1443, 288, 497, 1471, 2833, 120, 1414, 1424, 728, 40, 3400, 3990, 944,
        3354, 1498, 288, 2443, 3659, 586, 851, 13, 838, 2699, 2759, 2998, 3843, 3690, 504, 3063,
        29, 1201, 1511, 2824, 100, 3820, 2477, 953, 3519, 581, 765, 1859, 460, 1952, 1410, 2897,
        3928, 1057, 533, 114, 3958, 852, 1483, 1372, 1938, 3935, 1198, 1213, 3838, 3597, 3924, 2265,
        2604, 1339, 753, 2429, 4067, 330, 420, 2184, 2379, 1260, 640, 1542, 3676, 601, 3873, 512,
        3294, 912, 1293, 2082, 994, 969, 3091, 753, 1192, 1525, 1719, 2716, 189, 3526, 541, 2462,
        84, 1613, 319, 2876, 299, 540, 1721, 1226, 2255, 1707, 3034, 3794, 582, 2421, 1729, 1220,
        2609, 1452, 346, 1016, 1821, 2591, 1512, 2609, 3886, 2167, 236, 1541, 1673, 34, 1708, 3940,
        2982, 3691, 1313, 1807, 835, 1522, 1201, 3900, 1928, 372, 3892, 759, 3262, 444, 1134, 459,
        2286, 2480, 2818, 630, 3259, 2877, 1827, 3802, 1633, 759, 3144, 1727, 1768, 715, 1015, 3930,
        1857, 1394, 3838, 2143, 583, 1455, 1894, 2586, 2610, 354, 1979, 3092, 834, 1207, 7, 3400,
        2863, 1839, 2534, 1892, 31, 895, 1222, 468, 3148, 4009, 2576, 1233, 2233, 2495, 639, 1737,
        2892, 3077, 1930, 379, 2777, 2038, 3113, 3935, 951, 2227, 3121, 1660, 1147, 2588, 4030, 88,
        494, 1106, 3619, 2738, 166, 1, 1050, 1631, 2154, 3647, 2382, 2908, 1622, 1821, 417, 3057,
        1034, 1449, 1160, 3568, 3093, 2754, 3722, 802, 2438, 349, 145, 288, 3245, 1075, 1251, 2185,
        1392, 484, 2171, 3520, 1020, 3648, 3768, 3121, 669, 278, 1699, 3526, 1186, 1158, 2129, 550,
        2351, 2142, 2568, 861, 2176, 431, 1682, 3914, 2599, 2226, 1652, 3036, 3188, 3702, 3228, 1141,
        1197, 1811, 1522, 2327, 2575, 564, 643, 505, 2855, 493, 1562, 1643, 2420, 1916, 571, 2292,
        2737, 1224, 1450, 2589, 1936, 3040, 1700, 892, 1952, 2002, 2845, 2054, 1303, 2018, 2670, 3925,
        246, 1818, 1229, 584, 3052, 2029, 214, 3634, 2544, 883, 104, 1455, 1931, 1601, 3639, 4066,
        41, 3466, 2157, 4009, 272, 2813, 3551, 333, 2811, 3888, 3039, 3787, 2740, 1618, 26, 1479,
        168, 475, 2543, 15, 4094, 1107, 3576, 2622, 2865, 1198, 2978, 3689, 928, 576, 3078, 2346,
        1179, 783, 431, 1777, 1887, 2934, 1352, 1573, 689, 1354, 1727, 2654, 3674, 2815, 1782, 606,
        1832, 3822, 2903, 604, 2146, 1294, 529, 855, 3728, 765, 1819, 1430, 3233, 4028, 1592, 1750,
        3304, 2015, 1595, 2989, 901, 3258, 803, 1799, 3850, 836, 2402, 2908, 203, 3710, 1590, 136,
        958, 2593, 346, 3567, 764, 1489, 233, 3043, 2613, 2775, 710, 954, 2501, 1218, 2508, 354,
        2887, 3558, 2097, 3078, 1165, 3159, 3594, 3616, 1446, 1685, 1877, 220, 2588, 2854, 2114, 2726,
        3917, 2656, 3910, 2241, 3808, 3008, 3825, 1763, 2379, 1862, 2007, 1043, 2884, 1948, 882, 1381,
        1089, 172, 179, 215, 667, 1432, 15, 1187, 2681, 29, 575, 260, 3222, 1752, 2787, 909,
        3975, 2492, 1624, 2284, 3774, 905, 1858, 789, 1390, 2491, 419, 2483, 3616, 350, 3255, 1306,
        1322, 2195, 1866, 3659, 1331, 1046, 118, 2138, 181, 778, 1510, 328, 858, 3563, 2148, 1416,
        769, 3429, 825, 1029, 2755, 2986, 3013, 1234, 1278, 2117, 3522, 1575, 1043, 1974, 1408, 3571,
        2918, 982, 182, 1252, 3826, 2260, 296, 37, 1887, 2028, 2967, 1794, 194, 3756, 3313, 1688,
        4009, 2021, 1886, 1802, 483, 350, 333, 987, 404, 3384, 3135, 629, 1695, 3621, 3765, 874,
        1804, 2509, 315, 3350, 1748, 2289, 3091, 3631, 3396, 1615, 161, 3927, 738, 1022, 2007, 901,
        524, 3442, 3567, 1142, 3827, 1442, 1309, 4074, 1781, 439, 2281, 3684, 1169, 2498, 2216, 3231,
        824, 2912, 1215, 3184, 1809, 2105, 2476, 1892, 2196, 2598, 1069, 1116, 949, 67, 486, 2518,
        3209, 2915, 405, 706, 3001, 1698, 1018, 893, 1165, 3603, 3014, 4084, 2701, 26, 3038, 2193,
        2110, 1754, 3518, 203, 498, 1575, 2642, 1116, 484, 3977, 3019, 2312, 1470, 940, 2764, 2934,
        2881, 2239, 2705, 1155, 907, 3030, 3407, 3692, 983, 265, 2122, 1259, 2763, 1340, 956, 1528,
        2574, 1967, 1174, 2384, 701, 562, 3316, 63, 2265, 2067, 1343, 1503, 2397, 2600, 103, 3325,
        531, 3591, 1620, 635, 3996, 724, 2090, 4060, 313, 555, 3133, 845, 3200, 3748, 3173, 2034,
        2332, 3142, 2849, 3970, 874, 963, 3000, 541, 3343, 957, 3112, 1575, 1447, 2492, 2420, 542,
        2576, 2041, 3689, 3759, 442, 2523, 3415, 106, 2156, 2441, 1468, 2003, 1866, 1264, 51, 3926,
        901, 2275, 2673, 667, 2706, 3600, 2026, 3314, 3904, 3020, 1969, 2236, 1285, 2884, 3472, 322,
        1061, 562, 2475, 1645, 2881, 782, 3365, 1296, 3216, 1194, 1573, 3865, 242, 854, 156, 1290,
        2975, 3060, 3939, 1022, 1405, 3534, 1807, 2737, 2972, 2702, 2694, 925, 1065, 1409, 2750, 664,
        1248, 69, 1459, 2349, 2209, 238, 2999, 2582, 619, 1447, 90, 2011, 2571, 251, 100, 989,
        184, 50, 924, 3872, 2678, 1338, 272, 3362, 255, 1412, 3981, 2719, 1731, 556, 3655, 3776,
        886, 1838, 1782, 581, 1466, 1277, 724, 2658, 1346, 2982, 4041, 3216, 3060, 1673, 1567, 39,
        1676, 3649, 1080, 2186, 2176, 3295, 3013, 4016, 2812, 2887, 1895, 3109, 171, 2313, 3774, 502,
        1674, 3907, 1598, 701, 12, 2050, 566, 2547, 3558, 2711, 2105, 3440, 3000, 2865, 606, 326,
        1351, 972, 3441, 3392, 3361, 722, 1010, 3874, 90, 3918, 3303, 3671, 691, 3042, 3226, 3433,
        2800, 2299, 689, 2940, 321, 1749, 3799, 3541, 2448, 424, 2541, 2574, 1873, 2908, 614, 2518,
        2465, 164, 1034, 1393, 3300, 3022, 3001, 1542, 111, 2563, 3819, 3643, 148, 2033, 367, 1467,
        1199, 2751, 617, 1876, 967, 2078, 1457, 664, 3012, 3084, 1657, 1382, 1105, 3290, 2016, 3868,
        1608, 60, 1272, 2172, 3688, 1180, 2254, 1920, 4003, 143, 3165, 2178, 2336, 2261, 1074, 3826,
        2813, 156, 1867, 1618, 2954, 491, 1653, 1419, 2031, 209, 84, 1118, 3030, 4078, 140, 1040,
        2788, 2786, 2383, 2878, 3178, 3805, 1186, 4075, 2810, 3121, 848, 3123, 2167, 2114, 1393, 1581,
        4007, 3417, 3980, 1026, 855, 475, 2318, 4021, 1349, 3296, 3967, 3862, 3786, 993, 2400, 2760,
        2949, 2182, 2790, 3586, 1447, 665, 3753, 3555, 3684, 626, 1354, 3466, 3061, 3359, 37, 2395,
        3343, 209, 2313, 639, 3900, 1411, 1487, 1192, 2562, 1201, 1323, 2026, 3206, 1653, 2460, 1765,
        4044, 696, 4, 3229, 576, 2328, 178, 1809, 515, 1398, 3806, 38, 3885, 2955, 1967, 3726,
        3877, 2720, 3352, 2714, 3189, 1055, 3060, 2507, 768, 287, 2248, 3834, 1736, 1141, 3890, 3400,
        712, 2168, 695, 259, 2698, 2618, 644, 2374, 450, 3857, 2064, 2589, 3263, 2225, 2478, 1575,
        3091, 1780, 1088, 1275, 1167, 55, 1755, 3188, 4058, 3357, 2940, 1148, 3875, 1057, 2203, 2159 >>

MT7 ==
    <<
        1326, 3882, 617, 1617, 2666, 197, 296, 3363, 2194, 385, 1497, 2387, 237, 3726, 2078, 879,
        153, 352, 1776, 1712, 286, 985, 371, 2257, 1738, 242, 3386, 2316, 507, 3880, 914, 2583,
        2569, 2387, 3881, 253, 2363, 2398, 1624, 203, 3998, 905, 190, 2280, 3516, 545, 1186, 1716,
        590, 2214, 482, 2338, 1263, 2294, 3342, 2793, 740, 422, 2382, 2339, 2616, 769, 1525, 399,
        2243, 2916, 257, 2311, 244, 2535, 843, 2033, 2786, 2177, 1751, 3183, 1286, 1907, 2398, 3782,
        1856, 1481, 1227, 1017, 3253, 736, 2863, 3194, 999, 335, 2352, 1229, 2151, 2027, 3584, 1406,
        2987, 1838, 1179, 2494, 4014, 299, 483, 2096, 1712, 675, 3101, 1401, 622, 3822, 2002, 1727,
        160, 3940, 2737, 317, 3131, 2285, 2347, 3232, 3585, 3351, 1285, 1393, 2847, 1434, 2434, 2034,
        2375, 3264, 1868, 281, 3440, 383, 3869, 1105, 1941, 2855, 2720, 266, 248, 2994, 2873, 1268,
        2650, 2367, 4067, 2790, 3366, 1825, 1165, 2935, 1580, 3633, 2738, 1421, 92, 3852, 1891, 1455,
        688, 2502, 479, 2022, 241, 893, 3146, 1177, 529, 3024, 1014, 1629, 1601, 3755, 3569, 2033,
        330, 681, 1839, 1645, 2250, 1138, 3618, 560, 3355, 1763, 3538, 2253, 1140, 2893, 1701, 4040,
        1469, 2796, 3621, 1558, 3922, 945, 618, 339, 721, 619, 950, 2697, 955, 49, 1986, 3404,
        2413, 746, 1076, 1154, 16, 596, 1716, 2189, 1512, 2497, 2319, 1305, 3903, 514, 2828, 3519,
        2111, 3892, 2529, 2682, 2769, 3030, 221, 1870, 3684, 3567, 3194, 3898, 3582, 2787, 3268, 2290,
        1607, 1630, 1634, 1614, 424, 1972, 2598, 1640, 254, 780, 275, 4033, 855, 1804, 664, 450,
        1392, 2460, 215, 419, 0, 2321, 619, 2197, 415, 3886, 1489, 2513, 104, 288, 3581, 851,
        2515, 1541, 608, 2598, 1033, 3913, 1422, 2466, 1491, 1942, 503, 472, 3477, 1999, 4067, 4005,
        1908, 1967, 1981, 1277, 351, 590, 418, 3070, 1403, 3032, 1084, 1960, 3394, 2834, 661, 2114,
        94, 840, 3895, 3899, 2163, 1481, 600, 2826, 2224, 3744, 110, 3105, 2163, 1220, 4007, 2633,
        3536, 372, 2851, 3462, 1069, 2123, 1502, 3720, 684, 1456, 3161, 912, 2181, 2218, 3191, 2059,
        1350, 2606, 913, 2511, 3323, 3229, 4034, 3106, 3492, 799, 3301, 980, 3351, 1641, 3030, 3290,
        928, 818, 2120, 2018, 1456, 2994, 118, 4053, 114, 3236, 1144, 1934, 1061, 793, 2836, 2478,
        3917, 1410, 1831, 3311, 3838, 2961, 4047, 1431, 3911, 3991, 1493, 329, 903, 418, 929, 1925,
        805, 1383, 837, 1976, 2556, 4035, 3687, 2499, 3442, 7, 1963, 3724, 2674, 1409, 3275, 2634,
        347, 3418, 2705, 491, 3726, 1591, 3204, 2914, 3072, 816, 1958, 3641, 731, 1777, 3232, 2604,
        1361, 355, 3280, 3875, 3979, 2956, 1621, 1897, 1644, 3044, 3878, 347, 2968, 650, 696, 4067,
        520, 112, 619, 2419, 3706, 1906, 3303, 2686, 598, 2505, 3385, 2440, 4015, 1942, 2692, 3839,
        1435, 638, 2247, 2245, 536, 87, 58, 3274, 3976, 2975, 2661, 420, 2156, 3069, 3824, 570,
        1776, 4040, 3570, 797, 3383, 3579, 864, 114, 1031, 871, 1199, 2052, 985, 3128, 2402, 1335,
        1062, 2229, 1716, 3416, 536, 249, 3727, 3030, 1449, 3676, 1876, 2713, 2389, 3338, 3703, 2116,
        1722, 3387, 3758, 3596, 2054, 535, 2178, 621, 2144, 2091, 76, 3575, 1802, 3180, 750, 2492,
        16, 3178, 3273, 613, 705, 579, 1939, 2535, 2970, 492, 2279, 252, 1335, 2794, 2123, 2173,
        2275, 1976, 3212, 3180, 434, 3617, 2294, 232, 1017, 783, 1134, 172, 3163, 400, 2079, 1852,
        2300, 114, 3112, 3661, 3737, 259, 1815, 1333, 2508, 3986, 2070, 2482, 2097, 816, 2837, 1135,
        1852, 2081, 2184, 3306, 1958, 2079, 3856, 1014, 2863, 2143, 3590, 3588, 3859, 3800, 1063, 3779,
        2291, 3656, 3863, 829, 3440, 1833, 561, 1706, 498, 1607, 1810, 1294, 297, 2749, 985, 1754,
        299, 871, 2742, 1240, 3211, 501, 3674, 3182, 632, 3848, 2933, 2635, 2704, 1499, 585, 1036,
        3616, 562, 3963, 1915, 899, 3058, 3901, 385, 1631, 3624, 1995, 666, 4054, 2735, 3409, 916,
        661, 2893, 1767, 4071, 2111, 1654, 1389, 1725, 801, 1460, 1304, 377, 2957, 1498, 79, 1384,
        2269, 1878, 1804, 2880, 74, 1574, 1357, 2119, 2555, 1210, 2098, 3935, 263, 462, 4034, 3762,
        3229, 936, 3980, 3589, 429, 344, 1087, 1113, 162, 3710, 3190, 743, 1107, 3095, 530, 3357,
        1729, 3479, 3733, 2768, 3354, 3874, 1059, 1662, 611, 2197, 3764, 2108, 2337, 2025, 2868, 1339,
        366, 1143, 235, 3275, 2818, 750, 1742, 3667, 296, 1101, 3843, 68, 2598, 362, 3283, 1067,
        343, 2491, 3507, 910, 272, 1083, 3533, 498, 1858, 47, 1389, 4072, 2265, 1711, 3795, 3749,
        1097, 2546, 529, 176, 2158, 2906, 976, 3842, 448, 3969, 661, 1072, 206, 741, 826, 3818,
        1277, 2575, 1249, 2175, 3110, 843, 1187, 1825, 2048, 2753, 728, 1108, 1421, 3291, 74, 4073,
        1025, 151, 62, 75, 3002, 2071, 2257, 4006, 776, 2106, 1944, 1006, 3828, 1831, 435, 2696,
        3354, 2662, 1770, 2689, 2027, 2236, 3418, 3640, 1610, 3974, 2075, 1260, 2816, 881, 4024, 940,
        1403, 813, 3409, 3612, 2894, 2985, 2604, 572, 1657, 4052, 1423, 4021, 222, 3428, 531, 58,
        289, 2561, 3034, 3603, 1046, 1764, 668, 226, 346, 2724, 3445, 1560, 3565, 2072, 2746, 3976,
        1154, 2452, 992, 2837, 1200, 185, 1881, 759, 645, 1101, 1826, 14, 1078, 1491, 3939, 1347,
        3983, 4034, 2240, 1325, 1001, 141, 3955, 3614, 1267, 892, 1460, 749, 4, 1373, 1563, 343,
        1944, 1142, 2059, 2687, 823, 1016, 2067, 3179, 20, 372, 1082, 3346, 367, 589, 1636, 2403,
        170, 1613, 92, 1227, 1246, 2579, 953, 346, 2398, 3922, 2167, 3494, 3074, 635, 2693, 3656,
        2932, 3211, 3600, 2443, 1595, 3130, 1335, 2951, 4033, 2024, 612, 1163, 2966, 2534, 2634, 592,
        179, 3378, 3421, 2928, 3653, 2101, 2569, 1758, 3005, 2871, 3326, 2070, 570, 3726, 2145, 3083,
        2065, 2328, 3419, 3329, 3295, 65, 3384, 2811, 2392, 3268, 3657, 2913, 2797, 3916, 2839, 2633,
        941, 348, 127, 171, 545, 2609, 1477, 3930, 429, 1542, 3423, 1848, 2287, 207, 2571, 77,
        2565, 2176, 2788, 1001, 2004, 1080, 13, 1871, 3267, 287, 3064, 3819, 2060, 3677, 2192, 376,
        2700, 2154, 270, 3054, 3017, 1940, 1032, 3314, 304, 3465, 1087, 961, 2987, 3098, 840, 945,
        3030, 2662, 3996, 1885, 2023, 3463, 1566, 314, 1962, 3729, 2800, 1176, 3141, 191, 2527, 2591,
        2632, 812, 317, 2456, 603, 1358, 1040, 2668, 3044, 2838, 1246, 2544, 2325, 546, 51, 1975,
        248, 1989, 1100, 3983, 2752, 407, 2835, 891, 2767, 2005, 1191, 2903, 2115, 1169, 1903, 1908,
        1910, 3142, 485, 4068, 3660, 2249, 816, 1276, 4006, 351, 3834, 1937, 71, 1186, 1879, 313,
        3358, 2075, 3965, 4073, 1840, 4071, 1100, 1584, 859, 3754, 3873, 3811, 863, 305, 2381, 369,
        580, 3061, 2146, 1072, 3902, 1472, 543, 2471, 3359, 2587, 2083, 1145, 3632, 461, 2880, 1495,
        947, 2039, 3677, 3588, 1991, 1614, 101, 651, 14, 3891, 2013, 2791, 1846, 1660, 1236, 2978,
        576, 1704, 1408, 1540, 1294, 495, 3441, 1357, 7, 1329, 3075, 1385, 3436, 1631, 491, 3849,
        3794, 801, 2920, 48, 3692, 3030, 1187, 1037, 1524, 266, 1609, 1598, 4091, 3563, 2413, 312,
        1477, 3790, 1753, 3095, 1127, 3499, 197, 1149, 416, 211, 3418, 2711, 1169, 2600, 3832, 609,
        1021, 3977, 1088, 1786, 2092, 1292, 777, 3166, 1529, 3215, 3916, 1752, 3621, 118, 3325, 3119,
        2584, 1638, 3741, 3586, 3853, 2269, 2249, 833, 2947, 330, 202, 3823, 2999, 1682, 1846, 2518,
        3082, 567, 2639, 3561, 1172, 1988, 200, 3735, 3796, 2253, 521, 699, 1934, 1699, 1407, 1154,
        1219, 1047, 3027, 3025, 3998, 2673, 1065, 1663, 2686, 977, 1232, 1979, 2282, 2739, 1615, 490,
        685, 2634, 662, 307, 851, 2050, 3710, 3325, 2036, 2254, 901, 1855, 3712, 1363, 4081, 3109,
        1843, 1750, 571, 2243, 788, 999, 371, 715, 1400, 2276, 373, 1307, 979, 1508, 1058, 3315,
        2333, 827, 3634, 82, 3070, 3566, 1690, 1568, 1695, 3054, 2146, 860, 1543, 1106, 1385, 3080,
        254, 2040, 1136, 2352, 3963, 1475, 515, 2812, 2061, 2167, 2578, 3237, 3534, 3475, 884, 379,
        1110, 3673, 1017, 1575, 1637, 2645, 1826, 1768, 3907, 1278, 3476, 3335, 3575, 3965, 89, 521,
        132, 1741, 2906, 3128, 3668, 3294, 1938, 3966, 2405, 2006, 0, 299, 1603, 3810, 3796, 3801,
        3381, 2162, 3503, 1917, 3982, 1838, 1017, 3207, 446, 916, 632, 622, 2139, 3980, 2793, 446,
        3856, 3380, 2956, 2871, 2651, 3467, 3132, 3665, 1873, 348, 2258, 3182, 161, 5, 3204, 514,
        952, 2332, 3767, 153, 2643, 2928, 1244, 3942, 524, 2566, 1031, 2163, 2606, 1791, 2861, 3128,
        459, 407, 288, 1230, 2148, 3864, 2387, 785, 1589, 1068, 915, 3237, 2461, 4, 42, 2201,
        1235, 4081, 1886, 1141, 3927, 1295, 2640, 3438, 3619, 992, 1946, 2155, 961, 2240, 1011, 119,
        3934, 1686, 2886, 2660, 1259, 226, 89, 795, 2041, 3624, 2762, 2650, 1720, 332, 1053, 933,
        2733, 1738, 3789, 1516, 928, 2019, 139, 2850, 1384, 2942, 1722, 1484, 2795, 1623, 811, 27,
        3264, 1196, 3027, 3461, 2067, 276, 840, 2030, 3972, 820, 1276, 3136, 3358, 794, 945, 1905,
        907, 1085, 3114, 3642, 1208, 446, 3899, 2554, 2030, 2498, 767, 3671, 914, 1986, 1708, 3728,
        2725, 231, 3886, 2436, 599, 3776, 1611, 222, 872, 96, 3989, 2441, 581, 1701, 212, 2907,
        246, 754, 1611, 1841, 3678, 2916, 3619, 1286, 3001, 463, 4085, 325, 3815, 678, 1348, 781,
        759, 2672, 3833, 2149, 3056, 1915, 130, 1277, 2721, 2971, 1550, 3437, 1531, 4034, 1358, 1812,
        693, 446, 11, 320, 1146, 330, 1439, 1721, 3913, 3625, 506, 2298, 3949, 3108, 849, 1557,
        1460, 3148, 3365, 1264, 3366, 3292, 1771, 359, 201, 2888, 1939, 801, 1526, 2218, 3766, 1828,
        790, 1324, 1491, 3020, 3674, 1943, 124, 2587, 1682, 1015, 3325, 2561, 3140, 1657, 166, 1538,
        142, 1900, 256, 3290, 3768, 253, 1052, 798, 3060, 257, 3680, 2480, 1388, 1486, 1115, 1372,
        3922, 3906, 2527, 178, 1073, 3057, 2935, 2824, 1296, 3785, 1128, 1218, 15, 2955, 3095, 2439,
        3753, 3299, 2596, 3876, 3863, 267, 99, 3383, 957, 439, 1946, 2930, 3918, 1907, 3907, 3179,
        1583, 3235, 1028, 3741, 1761, 3337, 2021, 543, 3801, 2033, 749, 35, 3287, 3813, 3024, 1242,
        3370, 2834, 3165, 619, 2487, 967, 1342, 3527, 1308, 1887, 1482, 3210, 3204, 2440, 323, 2096,
        808, 1604, 3083, 655, 1012, 1670, 265, 2660, 138, 1973, 2263, 2230, 1334, 658, 4015, 1747,
        3618, 430, 4046, 295, 1084, 2558, 344, 853, 394, 1724, 2041, 4048, 2907, 3981, 1830, 709,
        959, 544, 1707, 1887, 2540, 3650, 2761, 962, 3063, 2205, 3469, 3169, 2721, 3111, 496, 3193,
        3444, 1203, 1203, 1144, 2321, 1096, 1527, 1040, 3023, 1066, 815, 1799, 1013, 760, 1004, 964,
        628, 1152, 3621, 3717, 2368, 771, 1336, 265, 1622, 1030, 4065, 1007, 2078, 2155, 947, 2660,
        3311, 411, 2676, 1900, 4058, 151, 419, 18, 1944, 3616, 3355, 946, 3442, 1836, 3745, 1531,
        165, 3591, 1202, 953, 488, 206, 776, 2459, 3985, 3391, 2388, 795, 3809, 307, 1524, 2099,
        3547, 728, 1839, 2470, 1064, 3174, 3185, 2722, 3873, 25, 433, 2611, 2441, 2906, 2539, 1432,
        891, 153, 1510, 1392, 579, 180, 835, 4095, 1044, 156, 2455, 2999, 2669, 3743, 833, 3337,
        46, 3353, 1340, 1675, 2778, 1522, 758, 2543, 1278, 319, 833, 128, 3257, 2030, 2244, 1980,
        259, 1671, 415, 3259, 1619, 2719, 2253, 633, 2618, 2187, 373, 2674, 670, 1629, 2848, 1110,
        1678, 4047, 1160, 2735, 1259, 1711, 3904, 210, 1279, 3052, 2320, 3619, 1463, 1696, 1705, 74,
        3539, 3140, 4082, 3285, 1490, 2639, 807, 1600, 2982, 1658, 834, 3858, 24, 1778, 3693, 641,
        1735, 465, 3360, 370, 1663, 2366, 3616, 1493, 1887, 3166, 665, 532, 60, 211, 2259, 583,
        2624, 3303, 3726, 1624, 364, 2346, 2548, 3797, 1518, 3019, 2066, 703, 597, 1425, 1160, 662,
        2134, 703, 3790, 274, 445, 1571, 2009, 3086, 3296, 3244, 3960, 3296, 808, 1235, 518, 3429,
        3862, 178, 3995, 3738, 1977, 1288, 218, 2488, 3793, 2606, 1588, 353, 3703, 2917, 2540, 2818,
        3377, 3650, 656, 2622, 3218, 3508, 909, 2543, 1656, 2517, 3466, 803, 3396, 1937, 749, 2315,
        893, 170, 1637, 3844, 2121, 640, 1571, 1471, 504, 612, 1011, 3975, 2969, 3340, 3675, 788,
        168, 3620, 2303, 3450, 3102, 2753, 156, 2735, 3433, 1327, 482, 1596, 2455, 1866, 2253, 3477,
        2568, 3187, 1254, 2658, 1720, 1262, 2386, 1020, 1743, 1594, 2698, 1505, 1830, 2062, 1795, 732,
        95, 14, 2534, 4039, 2004, 1905, 963, 1830, 3127, 2533, 3194, 3354, 1877, 3426, 735, 3319,
        1938, 1639, 438, 274, 526, 1468, 1763, 1496, 375, 3286, 1810, 2065, 2089, 2691, 166, 166,
        2606, 533, 336, 3777, 3004, 1285, 3185, 2950, 2095, 327, 222, 3080, 2064, 3665, 1547, 2673,
        3894, 3212, 557, 105, 3510, 271, 4080, 2515, 2998, 2836, 3338, 448, 793, 539, 4021, 3627,
        2014, 1179, 3918, 3321, 3752, 3256, 676, 2810, 3229, 2953, 3811, 905, 268, 3412, 1437, 2500,
        3097, 1033, 650, 1326, 3672, 2513, 1126, 3707, 3340, 1869, 588, 1041, 2057, 3949, 3767, 1966 >>

\* bits kept of every 32-bit word
DrawUnit == 64 * 64

\* the seeds with a table: the two the script passes, app.py:525 and 532
Seeds == {0, 7}

WordAt(seed, pos) ==
    LET t == IF seed = 0 THEN MT0 ELSE MT7
    IN  t[(pos % Len(t)) + 1]

\* random.seed(seed)
RandomSeed(seed) == [seed |-> seed, pos |-> 0]

\* random.random(): two words are drawn, the first gives the leading bits
Random(g) == [val |-> WordAt(g.seed, g.pos), g |-> [g EXCEPT !.pos = @ + 2]]

\* random.choice(seq) for 5 <= len(seq) <= 7: getrandbits(3) until below n
RECURSIVE Choice(_, _)
Choice(g, n) ==
    LET r == WordAt(g.seed, g.pos) \div (DrawUnit \div 8)
        g1 == [g EXCEPT !.pos = @ + 1]
    IN  IF r < n THEN [val |-> r, g |-> g1] ELSE Choice(g1, n)

\* random.random() < num/den, for the draw known as val/DrawUnit
DrawBelow(val, num, den) == val < (num * DrawUnit) \div den

\* int(x) for x = num/den, den > 0: truncation toward zero.  The code truncates
\* a float product, which can lie one ulp under an exact integer (8 * 0.75 *
\* 1.5 when 0.75 was computed as 0.6 / 0.8); no vector of PosterEmotions or of
\* the replies has such a product.
IntOf(num, den) == IF num >= 0 THEN num \div den ELSE -((-num) \div den)

-----------------------------------------------------------------------------
(* src/app.py: the poster engine                                           *)
(*                                                                         *)
(* An image is the tuple of coefficients of its closed-form terms: the     *)
(* grid and the term shapes are fixed, so equal coefficients give the same *)
(* pixels.  Each coefficient is a numerator over the stated denominator.   *)

\* generate_aura_layer: the image handed to ax.imshow
AppAuraLayer(e) ==
    LET fear == Get(e, "Fear")
        desire == Get(e, "Desire")
        calm == Get(e, "Calm")
        mystery == Get(e, "Mystery")
        connection == Get(e, "Connection")
        transform == Get(e, "Transformation")
    IN  [ base_decay |-> 2 * Scale + 3 * fear,                \* / Scale
          base_gain  |-> 6 * Scale + 7 * calm,                \* / 10 Scale
          desire_core |-> 8 * desire,                         \* / 10 Scale
          connection_core |-> 8 * connection,                 \* / 10 Scale
          mystery_wave |-> 3 * mystery,                       \* / 10 Scale
          transform_bloom |-> 3 * transform,                  \* / 10 Scale
          cool |-> 2 * Scale + 5 * calm + 5 * mystery + 4 * fear,   \* / 10 Scale
          warm |-> 2 * Scale + 6 * desire + 5 * connection,         \* / 10 Scale
          green |-> 10 * calm + 10 * connection + 3 * Scale,        \* / 20 Scale
          brightness |-> 4 * Scale + 6 * transform ]                \* / 10 Scale

\* the number of palette colours of generate_geometric_layer
AppPaletteLen == 6

\* one pass of the loop body over cell n (i = n // cells, j = n % cells)
AppCell(n, cells, e, st) ==
    LET r_skip == Random(st.g)
    IN  IF DrawBelow(r_skip.val, Get(e, "Calm"), 5 * Scale)     \* < 0.2 * calm
        THEN [st EXCEPT !.g = r_skip.g]
        ELSE LET color == Choice(r_skip.g, AppPaletteLen)
                 jx == Random(color.g)
                 jy == Random(jx.g)
                 rw == Random(jy.g)
                 rh == Random(rw.g)
                 rect == [ i |-> n \div cells, j |-> n % cells, cells |-> cells,
                           jitter_x |-> jx.val, jitter_y |-> jy.val,
                           \* w * (0.7 + 0.6 r), as a numerator over 10 DrawUnit cells
                           width |-> 7 * DrawUnit + 6 * rw.val,
                           height |-> 7 * DrawUnit + 6 * rh.val,
                           color |-> color.val,
                           \* 0.1 + 0.4 (fear + desire), over 10 Scale
                           alpha |-> Scale + 4 * (Get(e, "Fear") + Get(e, "Desire")) ]
             IN  [g |-> rh.g, patches |-> Append(st.patches, rect)]

\* the loop over the cells lo..hi, by halves
RECURSIVE AppCells(_, _, _, _, _)
AppCells(lo, hi, cells, e, st) ==
    IF lo > hi THEN st
    ELSE IF lo = hi THEN AppCell(lo, cells, e, st)
    ELSE LET mid == (lo + hi) \div 2
             left == AppCells(lo, mid, cells, e, st)
         IN  \* the first half is complete before the second begins
             IF left.g.pos >= 0 THEN AppCells(mid + 1, hi, cells, e, left) ELSE left

\* random.seed(seed) at the head of a drawing function
AppSeedRng(g, seed) == RandomSeed(seed)

\* generate_geometric_layer(ax, emotions, seed): the patches added and the
\* generator state left behind
AppGeometricLayer(g, e, seed) ==
    LET g0 == AppSeedRng(g, seed)
        cells == 6 + IntOf(Get(e, "Transformation") * 6, Scale)
    IN  AppCells(0, cells * cells - 1, cells, e, [g |-> g0, patches |-> <<>>])

\* the alpha of the aura image, in hundredths, by style
AppStyleAlpha(style) ==
    IF style = "Geometric Focus" THEN 60
    ELSE IF style = "Aura Focus" THEN 90
    ELSE 75

\* mutant: the aura image gets seeded noise
AppHybridPosterSeededAura(g, e, style, seed) ==
    LET g0 == AppSeedRng(g, seed)
        noisy == [AppAuraLayer(e) EXCEPT !.brightness = @ + WordAt(seed, 0)]
        image == [kind |-> "image", data |-> noisy, alpha |-> AppStyleAlpha(style)]
        layer == AppGeometricLayer(g0, e, seed)
    IN  [ g |-> layer.g,
          fig |-> [ artists |-> <<image>> \o [k \in 1..Len(layer.patches) |->
                                     [kind |-> "patch", data |-> layer.patches[k]]],
                    title |-> "Aura Tarot Poster" ] ]

\* generate_hybrid_poster(emotions, style, seed): the figure, as the ordered
\* list of what was drawn on the axes, and the generator state left behind
AppHybridPoster(g, e, style, seed) ==
    LET g0 == AppSeedRng(g, seed)
        image == [kind |-> "image", data |-> AppAuraLayer(e), alpha |-> AppStyleAlpha(style)]
        layer == AppGeometricLayer(g0, e, seed)
    IN  [ g |-> layer.g,
          fig |-> [ artists |-> <<image>> \o [k \in 1..Len(layer.patches) |->
                                     [kind |-> "patch", data |-> layer.patches[k]]],
                    title |-> "Aura Tarot Poster" ] ]

-----------------------------------------------------------------------------
(* src/src/generator.py: the poster engine of the package                  *)

\* choose_cmap: the 1e-6 added to the sum is below one unit of 1/Scale, so
\* share > p/100 is decided on whole units
ShareAbove(part, total, p) ==
    IF total >= 0 THEN 100 * part >= p * total + 2
    ELSE 100 * part <= p * total + 1

\* conditions in which a Calm share above 0.35 already counts
CmapConditionsLowCalm(e) ==
    LET s == SeqSum(Values(e))
    IN  [ fear_mystery |-> ShareAbove(Get(e, "Fear") + Get(e, "Mystery"), s, 55),
          desire_conn |-> ShareAbove(Get(e, "Desire") + Get(e, "Connection"), s, 55),
          calm |-> ShareAbove(Get(e, "Calm"), s, 35) ]

\* the three conditions of choose_cmap: fear_n + mystery_n > 0.55,
\* desire_n + conn_n > 0.55, calm_n > 0.45
CmapConditions(e) ==
    LET s == SeqSum(Values(e))
    IN  [ fear_mystery |-> ShareAbove(Get(e, "Fear") + Get(e, "Mystery"), s, 55),
          desire_conn |-> ShareAbove(Get(e, "Desire") + Get(e, "Connection"), s, 55),
          calm |-> ShareAbove(Get(e, "Calm"), s, 45) ]

\* choose_cmap(emotions)
ChooseCmap(e) ==
    LET c == CmapConditions(e)
    IN  IF c.fear_mystery THEN "twilight_shifted"
        ELSE IF c.desire_conn THEN "plasma"
        ELSE IF c.calm THEN "viridis"
        ELSE "magma"

\* generate_aura_field: the coefficients of the field's terms
GenAuraField(e) ==
    LET fear == Get(e, "Fear")
        desire == Get(e, "Desire")
        calm == Get(e, "Calm")
        mystery == Get(e, "Mystery")
        connection == Get(e, "Connection")
        transform == Get(e, "Transformation")
        total_emotion == fear + desire + calm + mystery + connection + transform
    IN  [ core_strengths |-> << 5 * Scale + 8 * fear,            \* / 10 Scale
                                5 * Scale + 8 * connection,
                                5 * Scale + 8 * desire >>,
          base_decay |-> 14 * Scale + 10 * fear - 7 * calm,      \* / 10 Scale
          rings_phase |-> 4 * transform,                         \* / Scale
          rings_weight |-> 5 * transform,                        \* / 10 Scale
          angular_weight |-> 5 * mystery,                        \* / 10 Scale
          tex_strength |-> 18 * Scale + 35 * (transform + mystery),   \* / 100 Scale
          center_glow |-> 10 * total_emotion < 6 * Scale ]       \* total < 0.6

\* draw_aura_layer: the image handed to ax.imshow
GenAuraLayer(e) == [field |-> GenAuraField(e), cmap |-> ChooseCmap(e)]

GenPaletteLen == 5

\* a loop body whose base size is 0.10 (fear + desire) - 0.07
GenShapeOffsetBelow(e, st) ==
    LET r_skip == Random(st.g)
    IN  IF DrawBelow(r_skip.val, 7 * Scale + 6 * Get(e, "Calm"), 20 * Scale)
        THEN [st EXCEPT !.g = r_skip.g, !.passes = @ + 1]
        ELSE LET cx == Random(r_skip.g)
                 cy == Random(cx.g)
                 rw == Random(cy.g)
                 rh == Random(rw.g)
                 color == Choice(rh.g, GenPaletteLen)
                 rect == [ cx |-> 15 * DrawUnit + 70 * cx.val,
                           cy |-> DrawUnit + 8 * cy.val,
                           base_size |-> 10 * (Get(e, "Fear") + Get(e, "Desire")) - 7 * Scale,
                           w_factor |-> 7 * DrawUnit + 8 * rw.val,
                           h_factor |-> 6 * DrawUnit + 9 * rh.val,
                           color |-> color.val,
                           alpha |-> 5 * Scale + 20 * (Get(e, "Fear") + Get(e, "Desire")) ]
             IN  [g |-> color.g, patches |-> Append(st.patches, rect),
                  passes |-> st.passes + 1]

\* one pass of the loop body of draw_geometric_accents
GenShape(e, st) ==
    LET r_skip == Random(st.g)
    IN  \* random.random() < 0.35 + 0.3 * calm
        IF DrawBelow(r_skip.val, 7 * Scale + 6 * Get(e, "Calm"), 20 * Scale)
        THEN [st EXCEPT !.g = r_skip.g, !.passes = @ + 1]
        ELSE LET cx == Random(r_skip.g)
                 cy == Random(cx.g)
                 rw == Random(cy.g)
                 rh == Random(rw.g)
                 color == Choice(rh.g, GenPaletteLen)
                 rect == [ \* uniform(0.15, 0.85), over 100 DrawUnit
                           cx |-> 15 * DrawUnit + 70 * cx.val,
                           \* uniform(0.1, 0.9), over 10 DrawUnit
                           cy |-> DrawUnit + 8 * cy.val,
                           \* 0.07 + 0.10 (fear + desire), over 100 Scale
                           base_size |-> 7 * Scale + 10 * (Get(e, "Fear") + Get(e, "Desire")),
                           \* uniform(0.7, 1.5) and uniform(0.6, 1.5), over 10 DrawUnit
                           w_factor |-> 7 * DrawUnit + 8 * rw.val,
                           h_factor |-> 6 * DrawUnit + 9 * rh.val,
                           color |-> color.val,
                           \* 0.05 + 0.20 (fear + desire), over 100 Scale
                           alpha |-> 5 * Scale + 20 * (Get(e, "Fear") + Get(e, "Desire")) ]
             IN  [g |-> color.g, patches |-> Append(st.patches, rect),
                  passes |-> st.passes + 1]

\* for _ in range(lo, hi + 1), by halves
RECURSIVE GenShapes(_, _, _, _)
GenShapes(lo, hi, e, st) ==
    IF lo > hi THEN st
    ELSE IF lo = hi THEN GenShape(e, st)
    ELSE LET mid == (lo + hi) \div 2
             left == GenShapes(lo, mid, e, st)
         IN  \* the first half is complete before the second begins
             IF left.g.pos >= 0 THEN GenShapes(mid + 1, hi, e, left) ELSE left

\* mutant: the generator is not seeded again
GenSeedRngKeep(g, seed) == g
\* mutant: the seed argument is ignored
GenSeedRngFixed(g, seed) == RandomSeed(0)
\* random.seed(seed) at the head of draw_geometric_accents
GenSeedRng(g, seed) == RandomSeed(seed)

\* accents whose base count is the constant 5 whatever the density
GenGeometricAccentsFixedBase(g, e, seed, density) ==
    LET g0 == GenSeedRng(g, seed)
        base_n == 5
        extra_n == IntOf(8 * Get(e, "Transformation") * density, 10 * Scale)
        n_shapes == base_n + extra_n
    IN  GenShapes(1, n_shapes, e, [g |-> g0, patches |-> <<>>, passes |-> 0])

\* draw_geometric_accents(ax, emotions, seed, density_scale), density_scale
\* in tenths: the patches added, the number of passes of the loop (the
\* candidate shapes) and the generator state left behind
GenGeometricAccents(g, e, seed, density) ==
    LET g0 == GenSeedRng(g, seed)
        base_n == IntOf(5 * density, 10)
        extra_n == IntOf(8 * Get(e, "Transformation") * density, 10 * Scale)
        n_shapes == base_n + extra_n
    IN  GenShapes(1, n_shapes, e, [g |-> g0, patches |-> <<>>, passes |-> 0])

\* mutant: a style that is not recognised is composed as Aura Focus
GenStyleParamsAuraElse(style) ==
    IF style = "Geometric Focus" THEN [alpha |-> 80, accents |-> TRUE, density |-> 15]
    ELSE IF style = "Hybrid" THEN [alpha |-> 90, accents |-> TRUE, density |-> 9]
    ELSE [alpha |-> 98, accents |-> FALSE, density |-> 0]

\* the branch of generate_hybrid_poster a style takes: the alpha of the aura
\* image in hundredths, whether accents are drawn, and their density_scale
\* in tenths
GenStyleParams(style) ==
    IF style = "Geometric Focus" THEN [alpha |-> 80, accents |-> TRUE, density |-> 15]
    ELSE IF style = "Aura Focus" THEN [alpha |-> 98, accents |-> FALSE, density |-> 0]
    ELSE [alpha |-> 90, accents |-> TRUE, density |-> 9]

\* a composer that draws the accents first and the field over them
GenHybridPosterAccentsFirst(g, e, style, seed) ==
    LET p == GenStyleParams(style)
        image == [kind |-> "image", data |-> GenAuraLayer(e), alpha |-> p.alpha]
        layer == IF p.accents THEN GenGeometricAccents(g, e, seed, p.density)
                 ELSE [g |-> g, patches |-> <<>>, passes |-> 0]
    IN  [ g |-> layer.g,
          fig |-> [ artists |-> [k \in 1..Len(layer.patches) |->
                                     [kind |-> "patch", data |-> layer.patches[k]]]
                                \o <<image>>,
                    title |-> "Aura Tarot Poster" ] ]

\* generate_hybrid_poster(emotions, style, seed)
GenHybridPoster(g, e, style, seed) ==
    LET p == GenStyleParams(style)
        image == [kind |-> "image", data |-> GenAuraLayer(e), alpha |-> p.alpha]
        layer == IF p.accents THEN GenGeometricAccents(g, e, seed, p.density)
                 ELSE [g |-> g, patches |-> <<>>, passes |-> 0]
    IN  [ g |-> layer.g,
          fig |-> [ artists |-> <<image>> \o [k \in 1..Len(layer.patches) |->
                                     [kind |-> "patch", data |-> layer.patches[k]]],
                    title |-> "Aura Tarot Poster" ] ]

-----------------------------------------------------------------------------
(* src/src/analyzer.py: symbols and the tarot-style reading                *)
(*                                                                         *)
(* The texts are those of the source with "--" for its dash.               *)

\* the keys of SYMBOLS, in the order of the dictionary
SymbolKeys ==
    <<"water", "sea", "ocean", "river", "drown", "fire", "bridge", "fall", "train",
      "station", "stranger", "dark", "light", "white dress", "door", "corridor",
      "chase", "exam", "family", "friend", "lover", "kiss", "death", "reborn",
      "flying">>

\* the loop that removes duplicates and keeps the first of each
RECURSIVE Dedupe(_, _)
Dedupe(found, ordered) ==
    IF found = <<>> THEN ordered
    ELSE IF \E k \in 1..Len(ordered) : ordered[k] = Head(found)
         THEN Dedupe(Tail(found), ordered)
         ELSE Dedupe(Tail(found), Append(ordered, Head(found)))

\* analyze_symbols(text)
AnalyzeSymbols(text) ==
    LET text_lower == Lower(text)
        multi == IF Contains(text_lower, "white dress") THEN <<"white dress">> ELSE <<>>
        Single(key) == key # "white dress" /\ Contains(text_lower, key)
        found == multi \o SelectSeq(SymbolKeys, Single)
    IN  Dedupe(found, <<>>)

\* sorted(emotion_scores.items(), key=lambda x: x[1], reverse=True): the sort
\* is stable, so equal values keep the order of the dictionary
RECURSIVE SortedEmotions(_)
SortedEmotions(items) ==
    IF items = <<>> THEN <<>>
    ELSE LET top == SeqMax([k \in 1..Len(items) |-> items[k][2]])
             i == CHOOSE k \in 1..Len(items) :
                      /\ items[k][2] = top
                      /\ \A j \in 1..(k - 1) : items[j][2] # top
         IN  <<items[i]>> \o SortedEmotions(SubSeq(items, 1, i - 1)
                                             \o SubSeq(items, i + 1, Len(items)))

AuraMap ==
    << <<"Fear", "deep blue and indigo tones, showing hidden worries and tension">>,
       <<"Desire", "rose and red aura, reflecting strong longing and emotional intensity">>,
       <<"Calm", "soft green and blue fields, suggesting recovery and emotional healing">>,
       <<"Mystery", "violet twilight light, symbolizing intuition and unanswered questions">>,
       <<"Connection", "warm orange glow, expressing relationships and emotional bonds">>,
       <<"Transformation", "golden light, hinting at change, ending, and new beginnings">> >>

\* sep.join(parts)
RECURSIVE Join(_, _)
Join(sep, parts) ==
    IF parts = <<>> THEN ""
    ELSE IF Len(parts) = 1 THEN parts[1]
    ELSE parts[1] \o sep \o Join(sep, Tail(parts))

ShadowSymbolsHead == "In your dream, symbols like "
ShadowSymbolsTail == " appear. They point to themes you may not fully face yet."
ShadowStrong ==
    "There is a strong undercurrent of fear or uncertainty, suggesting you might be avoiding a conversation, decision, or emotion in waking life."
ShadowGentle ==
    "The shadow side of this dream is gentle -- it hints at subtle doubts rather than overwhelming fear."

GuidanceTransformation ==
    "This is a transition moment. Let old expectations slowly fall away, and allow yourself to step into a new rhythm."
GuidanceCalm ==
    "Even if the dream feels intense, there is a calm core inside you. Trust that you are already learning how to balance your emotions."
GuidanceConnection ==
    "Reach out to people you trust -- sharing what you feel can turn isolation into support."
GuidanceDefault ==
    "Take one small, kind action for yourself today -- a walk, a note, or a quiet moment. Small rituals can gently realign your energy."

\* a guidance whose thresholds must be exceeded
GuidancePartsStrict(emotion_scores) ==
    LET t == IF GetOr(emotion_scores, "Transformation", 0) > Frac(1, 2)
             THEN <<GuidanceTransformation>> ELSE <<>>
        c == IF GetOr(emotion_scores, "Calm", 0) > Frac(1, 2)
             THEN <<GuidanceCalm>> ELSE <<>>
        n == IF GetOr(emotion_scores, "Connection", 0) > Frac(1, 2)
             THEN <<GuidanceConnection>> ELSE <<>>
        parts == t \o c \o n
    IN  IF parts = <<>> THEN <<GuidanceDefault>> ELSE parts

\* guidance_parts at the end of generate_tarot_reading
GuidanceParts(emotion_scores) ==
    LET t == IF GetOr(emotion_scores, "Transformation", 0) >= Frac(1, 2)
             THEN <<GuidanceTransformation>> ELSE <<>>
        c == IF GetOr(emotion_scores, "Calm", 0) >= Frac(1, 2)
             THEN <<GuidanceCalm>> ELSE <<>>
        n == IF GetOr(emotion_scores, "Connection", 0) >= Frac(1, 2)
             THEN <<GuidanceConnection>> ELSE <<>>
        parts == t \o c \o n
    IN  IF parts = <<>> THEN <<GuidanceDefault>> ELSE parts

\* generate_tarot_reading(symbols, emotion_scores): shadow, energy, guidance
GenerateTarotReading(symbols, emotion_scores) ==
    LET sorted_emotions == SortedEmotions(emotion_scores)
        dom1 == sorted_emotions[1][1]
        dom2 == sorted_emotions[2][1]
        aura_sentence == GetOr(AuraMap, dom1,
                               "shifting colors that mirror your complex emotions.")
        important == SubSeq(symbols, 1, Min2(3, Len(symbols)))
        named == IF symbols # <<>>
                 THEN <<ShadowSymbolsHead \o Join(", ", important) \o ShadowSymbolsTail>>
                 ELSE <<>>
        \* > 0.55
        strong == \/ 100 * GetOr(emotion_scores, "Fear", 0) > 55 * Scale
                  \/ 100 * GetOr(emotion_scores, "Mystery", 0) > 55 * Scale
        shadow_parts == named \o (IF strong THEN <<ShadowStrong>> ELSE <<ShadowGentle>>)
    IN  [ shadow |-> Join(" ", shadow_parts),
          energy |-> "Your aura leans toward " \o aura_sentence
                     \o ". The main energies in this dream are **" \o dom1
                     \o "** and **" \o dom2
                     \o "**, shaping how you react and move right now.",
          guidance |-> Join(" ", GuidanceParts(emotion_scores)) ]

-----------------------------------------------------------------------------
(* Input texts                                                             *)

\* words a dream text is put together from; the empty piece makes blank texts
Pieces == <<"", "Afraid", "falling", "ocean,", "friend", "light.", "door",
            "exam", "tunnel", "love", "fog", "zebra">>

RECURSIVE JoinFrom(_, _)
JoinFrom(ws, i) ==
    IF i > Len(ws) THEN ""
    ELSE IF i = Len(ws) THEN Pieces[ws[i]]
    ELSE Pieces[ws[i]] \o " " \o JoinFrom(ws, i + 1)

ShortTexts ==
    {JoinFrom(ws, 1) : ws \in UNION {[1..n -> 1..Len(Pieces)] : n \in 0..MaxWords}}

\* the round-trip sentence of the specification
RoundTripText ==
    "I was afraid of falling into the dark ocean, but a friend pulled me back to light."
\* the same sentence without its last word
RoundTripNoLight ==
    "I was afraid of falling into the dark ocean, but a friend pulled me back to"
\* the placeholder of the text area, app.py:468-470
PlaceholderText ==
    "I was on a crowded train above the ocean. The sky was turning darker and I was afraid of being late for an exam. Suddenly, a door of light appeared at the end of the train..."
NightmareText ==
    "A dark monster was chasing me; I was scared and afraid of falling."

LongTexts == {RoundTripText, RoundTripNoLight, PlaceholderText, NightmareText}

TextInputs == ShortTexts \cup LongTexts

-----------------------------------------------------------------------------
(* Harness for the extractors: calls on one text                           *)

Call(fn, args, ret) == [fn |-> fn, args |-> args, ret |-> ret]

Idle ==
    /\ client = FALSE
    /\ poster_style = "Hybrid"
    /\ multi_variation = FALSE
    /\ response = None
    /\ ai_result = None
    /\ used_model = ""
    /\ emotions = None
    /\ figs = <<>>
    /\ runs = 0
    /\ rng = [seed |-> 0, pos |-> 0]

InitExtract ==
    /\ dream_text \in TextInputs
    /\ pc = "harness"
    /\ calls = <<>>
    /\ Idle

CallPkgRuleBased ==
    /\ pc = "harness"
    /\ Len(calls) < MaxCalls
    /\ calls' = Append(calls, Call("emotion_model.rule_based_emotion_model",
                                   <<dream_text>>, PkgRuleBasedEmotionModel(dream_text)))
    /\ UNCHANGED <<client, dream_text, poster_style, multi_variation, pc, response,
                   ai_result, used_model, emotions, figs, rng, runs>>

CallAppRuleBased ==
    /\ pc = "harness"
    /\ Len(calls) < MaxCalls
    /\ calls' = Append(calls, Call("app.rule_based_emotion_model",
                                   <<dream_text>>, AppRuleBasedEmotionModel(dream_text)))
    /\ UNCHANGED <<client, dream_text, poster_style, multi_variation, pc, response,
                   ai_result, used_model, emotions, figs, rng, runs>>

NextExtract == CallPkgRuleBased \/ CallAppRuleBased

SpecExtract == InitExtract /\ [][NextExtract]_vars

-----------------------------------------------------------------------------
(* src/app.py: the remote analysis and the request                         *)

RequiredFields == <<"symbolic_summary", "emotions", "tarot_shadow", "tarot_energy",
                    "tarot_guidance">>

\* a dict without one of its keys
Without(d, k) == SelectSeq(d, LAMBDA p : p[1] # k)

\* emotion objects a reply may carry: within [0,1], and outside it
RemoteInRange ==
    << <<"Fear", Frac(8, 10)>>, <<"Desire", Frac(2, 10)>>, <<"Calm", Frac(5, 10)>>,
       <<"Mystery", Frac(5, 10)>>, <<"Connection", Frac(1, 4)>>,
       <<"Transformation", Frac(3, 10)>> >>
RemoteOutOfRange ==
    << <<"Fear", Frac(15, 10)>>, <<"Desire", Frac(2, 10)>>, <<"Calm", -Frac(2, 10)>>,
       <<"Mystery", Frac(5, 10)>>, <<"Connection", Frac(1, 4)>>,
       <<"Transformation", Frac(3, 10)>> >>

\* the JSON object the system instructions ask for
FullReply(ev) ==
    << <<"symbolic_summary", "remote summary">>,
       <<"emotions", ev>>,
       <<"tarot_shadow", "remote shadow">>,
       <<"tarot_energy", "remote energy">>,
       <<"tarot_guidance", "remote guidance">> >>

\* JSON values the service may answer with: objects, and a bare number
JsonObject(d) == [type |-> "object", members |-> d]
JsonReplies ==
    {JsonObject(FullReply(RemoteInRange)), JsonObject(FullReply(RemoteOutOfRange))}
    \cup {JsonObject(Without(FullReply(RemoteInRange), RequiredFields[k])) : k \in 1..5}
    \cup {JsonObject(FullReply(Without(RemoteInRange, "Calm")))}
    \cup {JsonObject(<<>>), [type |-> "number", members |-> <<>>]}

\* what client.responses.create does: it raises (timeout, transport error),
\* or answers with output text that is JSON or is not
Responses ==
    {[kind |-> "raise", data |-> None], [kind |-> "text", data |-> None]}
    \cup {[kind |-> "json", data |-> j] : j \in JsonReplies}

\* analyze_dream_with_openai(dream_text), given what the service does
AnalyzeDreamWithOpenai(has_client, reply) ==
    IF ~has_client THEN None
    ELSE IF reply.kind = "raise" THEN None                     \* except Exception
    ELSE IF reply.kind = "text" THEN None                      \* json.loads raises
    ELSE IF reply.data.type # "object" THEN None               \* TypeError, caught
    ELSE LET data == reply.data.members
         IN  IF ~HasKey(data, "emotions") THEN None
             ELSE IF \E k \in 1..6 : ~HasKey(Get(data, "emotions"), Dims[k]) THEN None
             ELSE data

FallbackLabel == "Rule-based fallback model"
OpenaiLabel == "OpenAI gpt-4.1-mini (Responses API)"

\* mutant: the first seed is taken from the text
SeedVariation1FromText(text) == Len(text)
\* the seeds of the two variations, app.py:525 and app.py:532
SeedVariation1(text) == 0
SeedVariation2(text) == 7

\* the styles of the selectbox, app.py:447
SelectboxStyles == {"Hybrid", "Geometric Focus", "Aura Focus"}

\* the texts typed into the text area
FlowTexts == {"", " ", " \n", RoundTripText, "zebra fog"}

\* states the generator may be in when a script run begins
RngStates == {[seed |-> 0, pos |-> 0], [seed |-> 7, pos |-> 11]}

Init ==
    /\ client \in BOOLEAN
    /\ rng \in RngStates
    /\ dream_text = ""
    /\ poster_style = "Hybrid"
    /\ multi_variation = TRUE
    /\ pc = "idle"
    /\ response = None
    /\ ai_result = None
    /\ used_model = ""
    /\ emotions = None
    /\ figs = <<>>
    /\ runs = 0
    /\ calls = <<>>

\* the user fills the form and presses the button: the script runs again
\* from the top, up to the check of the text (app.py:480-482)
Click ==
    /\ pc \in {"idle", "done", "warned", "crashed"}
    /\ runs < MaxRuns
    /\ \E text \in FlowTexts, style \in SelectboxStyles, multi \in BOOLEAN :
          /\ dream_text' = text
          /\ poster_style' = style
          /\ multi_variation' = multi
          /\ pc' = IF IsBlank(text) THEN "warned" ELSE "analyze"
    /\ runs' = runs + 1
    /\ response' = None
    /\ ai_result' = None
    /\ used_model' = ""
    /\ emotions' = None
    /\ figs' = <<>>
    /\ UNCHANGED <<client, rng, calls>>

\* app.py:485  ai_result = analyze_dream_with_openai(dream_text) if client else None
Analyze ==
    /\ pc = "analyze"
    /\ \E reply \in (IF client THEN Responses ELSE {None}) :
          /\ response' = reply
          /\ ai_result' = IF client THEN AnalyzeDreamWithOpenai(client, reply) ELSE None
    /\ pc' = "select"
    /\ UNCHANGED <<client, dream_text, poster_style, multi_variation, used_model,
                   emotions, figs, rng, runs, calls>>

\* app.py:487-492
SelectModel ==
    /\ pc = "select"
    /\ IF ai_result = None
       THEN /\ ai_result' = AppRuleBasedEmotionModel(dream_text).value
            /\ used_model' = FallbackLabel
       ELSE /\ used_model' = OpenaiLabel
            /\ UNCHANGED ai_result
    /\ pc' = "unpack"
    /\ UNCHANGED <<client, dream_text, poster_style, multi_variation, response,
                   emotions, figs, rng, runs, calls>>

\* app.py:494-498: a missing key raises KeyError, which nothing catches
Unpack ==
    /\ pc = "unpack"
    /\ IF \A k \in 1..5 : HasKey(ai_result, RequiredFields[k])
       THEN /\ emotions' = Get(ai_result, "emotions")
            /\ pc' = "charts"
       ELSE /\ pc' = "crashed"
            /\ UNCHANGED emotions
    /\ UNCHANGED <<client, dream_text, poster_style, multi_variation, response,
                   ai_result, used_model, figs, rng, runs, calls>>

\* app.py:500-520: the texts and the two charts are shown
Charts ==
    /\ pc = "charts"
    /\ pc' = "poster1"
    /\ UNCHANGED <<client, dream_text, poster_style, multi_variation, response,
                   ai_result, used_model, emotions, figs, rng, runs, calls>>

\* the record of a poster call: its arguments and the figure it returned
PosterCall(e, style, seed, fig) ==
    [args |-> [emotions |-> e, style |-> style, seed |-> seed], fig |-> fig]

\* the seed each variation was given for each text, over all runs of the script
Logged(log, text, variation, seed) ==
    IF \E i \in 1..Len(log) : log[i] = <<text, variation, seed>> THEN log
    ELSE Append(log, <<text, variation, seed>>)

\* app.py:525
Poster1 ==
    /\ pc = "poster1"
    /\ LET seed == SeedVariation1(dream_text)
           p == AppHybridPoster(rng, emotions, poster_style, seed)
       IN  /\ figs' = <<PosterCall(emotions, poster_style, seed, p.fig)>>
           /\ rng' = p.g
           /\ calls' = Logged(calls, dream_text, 1, seed)
    /\ pc' = IF multi_variation THEN "poster2" ELSE "done"
    /\ UNCHANGED <<client, dream_text, poster_style, multi_variation, response,
                   ai_result, used_model, emotions, runs>>

\* app.py:531-534
Poster2 ==
    /\ pc = "poster2"
    /\ LET seed == SeedVariation2(dream_text)
           p == AppHybridPoster(rng, emotions, poster_style, seed)
       IN  /\ figs' = Append(figs, PosterCall(emotions, poster_style, seed, p.fig))
           /\ rng' = p.g
           /\ calls' = Logged(calls, dream_text, 2, seed)
    /\ pc' = "done"
    /\ UNCHANGED <<client, dream_text, poster_style, multi_variation, response,
                   ai_result, used_model, emotions, runs>>

Next == Click \/ Analyze \/ SelectModel \/ Unpack \/ Charts \/ Poster1 \/ Poster2

Spec == Init /\ [][Next]_vars

-----------------------------------------------------------------------------
(* Harness for the poster engines: calls on one emotion vector and style   *)

\* a dim vector, as a reply or a caller may pass it
LowEnergy == [i \in 1..6 |-> <<Dims[i], Frac(1, 20)>>]

\* emotion vectors handed to the engines: what the two extractors return for
\* sample texts, and what a remote reply may carry
PosterEmotions ==
    { Get(AppRuleBasedEmotionModel("Afraid ocean,").value, "emotions"),
      Get(PkgRuleBasedEmotionModel("ocean,").value, "emotions"),
      RemoteInRange,
      LowEnergy }

\* style strings: the three of the selectbox, and strings that are none of them
PosterStyles == SelectboxStyles \cup {"Neon", "aura focus"}

\* density_scale values, in tenths: the two the composer passes and the default
Densities == {9, 10, 15}

\* a call of a drawing function: its arguments, the generator state it found
\* and what it drew; passes counts the candidate shapes of a call of
\* draw_geometric_accents and is 0 in the record of any other call
Drawing(fn, args, before, ret) ==
    [fn |-> fn, args |-> args, before |-> before, ret |-> ret, passes |-> 0]

InitPoster ==
    /\ emotions \in PosterEmotions
    /\ poster_style \in PosterStyles
    /\ rng \in RngStates
    /\ pc = "harness"
    /\ calls = <<>>
    /\ client = FALSE
    /\ dream_text = ""
    /\ multi_variation = FALSE
    /\ response = None
    /\ ai_result = None
    /\ used_model = ""
    /\ figs = <<>>
    /\ runs = 0

CallAppHybridPoster ==
    /\ pc = "harness"
    /\ Len(calls) < MaxDrawings
    /\ \E seed \in Seeds :
          LET r == AppHybridPoster(rng, emotions, poster_style, seed)
          IN  /\ calls' = Append(calls, Drawing("app.generate_hybrid_poster",
                                     <<emotions, poster_style, seed>>, rng, r.fig))
              /\ rng' = r.g
    /\ UNCHANGED <<client, dream_text, poster_style, multi_variation, pc, response,
                   ai_result, used_model, emotions, figs, runs>>

CallGenHybridPoster ==
    /\ pc = "harness"
    /\ Len(calls) < MaxDrawings
    /\ \E seed \in Seeds :
          LET r == GenHybridPoster(rng, emotions, poster_style, seed)
          IN  /\ calls' = Append(calls, Drawing("generator.generate_hybrid_poster",
                                     <<emotions, poster_style, seed>>, rng, r.fig))
              /\ rng' = r.g
    /\ UNCHANGED <<client, dream_text, poster_style, multi_variation, pc, response,
                   ai_result, used_model, emotions, figs, runs>>

CallAppGeometricLayer ==
    /\ pc = "harness"
    /\ Len(calls) < MaxDrawings
    /\ \E seed \in Seeds :
          LET r == AppGeometricLayer(rng, emotions, seed)
          IN  /\ calls' = Append(calls, Drawing("app.generate_geometric_layer",
                                     <<emotions, seed>>, rng, r.patches))
              /\ rng' = r.g
    /\ UNCHANGED <<client, dream_text, poster_style, multi_variation, pc, response,
                   ai_result, used_model, emotions, figs, runs>>

CallGenGeometricAccents ==
    /\ pc = "harness"
    /\ Len(calls) < MaxDrawings
    /\ \E seed \in Seeds, density \in Densities :
          LET r == GenGeometricAccents(rng, emotions, seed, density)
          IN  /\ calls' = Append(calls,
                            [ Drawing("generator.draw_geometric_accents",
                                      <<emotions, seed, density>>, rng, r.patches)
                              EXCEPT !.passes = r.passes ])
              /\ rng' = r.g
    /\ UNCHANGED <<client, dream_text, poster_style, multi_variation, pc, response,
                   ai_result, used_model, emotions, figs, runs>>

\* any other code of the process draws from the shared generator
OtherDraw ==
    /\ pc = "harness"
    /\ runs < MaxDraws
    /\ rng' = Random(rng).g
    /\ runs' = runs + 1
    /\ UNCHANGED <<client, dream_text, poster_style, multi_variation, pc, response,
                   ai_result, used_model, emotions, figs, calls>>

NextPoster ==
    \/ CallAppHybridPoster
    \/ CallGenHybridPoster
    \/ CallAppGeometricLayer
    \/ CallGenGeometricAccents
    \/ OtherDraw

SpecPoster == InitPoster /\ [][NextPoster]_vars

-----------------------------------------------------------------------------
(* Calls of the analyzer and of the colormap choice                        *)

\* dream texts with symbols in several orders, repeated, in capitals, inside
\* longer words, and without any
SymbolTexts ==
    {"", "zebra fog", "door ocean", "ocean door", "OCEAN Door", "dark dark fall",
     "a light near the white dress", "white dress by the water", "Seashore exam",
     "kiss a stranger at the station", "friend lover family death", "reborn flying"}

SymbolText0 == "door ocean"

\* emotion vectors on both sides of and exactly at the thresholds of the
\* guidance (0.5) and of the colormap shares (0.55, 0.55, 0.45)
ReadingVectors ==
    { << <<"Fear", f>>, <<"Desire", d>>, <<"Calm", c>>, <<"Mystery", m>>,
         <<"Connection", n>>, <<"Transformation", t>> >> :
        f \in {0, Frac(11, 20), Scale}, d \in {0, Scale},
        c \in {0, Frac(9, 20), Frac(1, 2), Scale}, m \in {0, Frac(3, 5)},
        n \in {0, Frac(1, 2), Scale}, t \in {0, Frac(1, 2), Frac(3, 4)} }

InitAnalyzer ==
    /\ dream_text \in SymbolTexts
    /\ emotions \in ReadingVectors \cup {RemoteInRange}
    /\ dream_text = SymbolText0 \/ emotions = RemoteInRange
    /\ pc = "harness"
    /\ calls = <<>>
    /\ client = FALSE
    /\ poster_style = "Hybrid"
    /\ multi_variation = FALSE
    /\ response = None
    /\ ai_result = None
    /\ used_model = ""
    /\ figs = <<>>
    /\ runs = 0
    /\ rng = [seed |-> 0, pos |-> 0]

CallAnalyzeSymbols ==
    /\ pc = "harness"
    /\ Len(calls) < MaxCalls
    /\ calls' = Append(calls, Call("analyzer.analyze_symbols",
                                   <<dream_text>>, AnalyzeSymbols(dream_text)))
    /\ UNCHANGED <<client, dream_text, poster_style, multi_variation, pc, response,
                   ai_result, used_model, emotions, figs, rng, runs>>

CallGenerateTarotReading ==
    /\ pc = "harness"
    /\ Len(calls) < MaxCalls
    /\ LET symbols == AnalyzeSymbols(dream_text)
       IN  calls' = Append(calls, Call("analyzer.generate_tarot_reading",
                                       <<symbols, emotions>>,
                                       GenerateTarotReading(symbols, emotions)))
    /\ UNCHANGED <<client, dream_text, poster_style, multi_variation, pc, response,
                   ai_result, used_model, emotions, figs, rng, runs>>

CallChooseCmap ==
    /\ pc = "harness"
    /\ Len(calls) < MaxCalls
    /\ calls' = Append(calls, Call("generator.choose_cmap", <<emotions>>,
                                   ChooseCmap(emotions)))
    /\ UNCHANGED <<client, dream_text, poster_style, multi_variation, pc, response,
                   ai_result, used_model, emotions, figs, rng, runs>>

NextAnalyzer == CallAnalyzeSymbols \/ CallGenerateTarotReading \/ CallChooseCmap

SpecAnalyzer == InitAnalyzer /\ [][NextAnalyzer]_vars

-----------------------------------------------------------------------------
(* Properties of the extractors (SpecExtract)                              *)

PkgFn == "emotion_model.rule_based_emotion_model"
AppFn == "app.rule_based_emotion_model"
ExtractCalls == {i \in 1..Len(calls) : calls[i].fn \in {PkgFn, AppFn}}
\* the emotion vector a call returned
Out(i) == Get(calls[i].ret.value, "emotions")
\* the accumulated values of the same call, before rescaling or clamping
Acc(i) == IF calls[i].fn = PkgFn THEN PkgAccumulate(calls[i].args[1])
          ELSE AppAccumulate(calls[i].args[1])
AllEqual(e) == \A i, j \in 1..Len(e) : e[i][2] = e[j][2]

\* C1: whatever the text, an extractor returns normally a vector whose keys
\* are exactly Fear, Desire, Calm, Mystery, Connection, Transformation, in
\* that order, and whose every value lies in [0.0, 1.0].
Thm_C1 ==
    \A i \in ExtractCalls :
        /\ calls[i].ret.raised = ""
        /\ Keys(Out(i)) = Dims
        /\ \A k \in 1..Len(Out(i)) : 0 <= Out(i)[k][2] /\ Out(i)[k][2] <= Scale

\* both extractors have been applied to a text that overshoots 1.0 before
\* app.py's clamp
Witness_C1 ==
    /\ \E i \in ExtractCalls : calls[i].fn = PkgFn
    /\ \E i \in ExtractCalls :
          /\ calls[i].fn = AppFn
          /\ Get(Acc(i), "Fear") > Scale
          /\ Get(Out(i), "Fear") = Scale

\* C3 as stated: min-max normalisation; when the accumulated values are not
\* all equal the smallest output is exactly 0.0 and the largest exactly 1.0.
Cex_C3 ==
    \A i \in ExtractCalls :
        ~AllEqual(Acc(i)) =>
            /\ SeqMin(Values(Out(i))) = 0
            /\ SeqMax(Values(Out(i))) = Scale

\* C3 amended: emotion_model.py divides every accumulated value by the
\* maximum (nothing is subtracted): the largest output is exactly 1.0, every
\* output is accumulated/max and so is strictly positive, never 0.0.  app.py
\* does not rescale: each output is the accumulated value cut off at 1.0.
Thm_C3 ==
    \A i \in ExtractCalls :
        /\ calls[i].fn = PkgFn =>
              /\ SeqMax(Values(Out(i))) = Scale
              /\ SeqMin(Values(Out(i))) > 0
              /\ \A k \in 1..6 :
                    Out(i)[k][2] * SeqMax(Values(Acc(i))) = Acc(i)[k][2] * Scale
        /\ calls[i].fn = AppFn =>
              \A k \in 1..6 : Out(i)[k][2] = Min2(Scale, Acc(i)[k][2])

\* a rescaled, non-degenerate vector: emotion_model.py returned values that
\* differ, and app.py returned a value it had to cut off
Witness_C3 ==
    /\ \E i \in ExtractCalls :
          /\ calls[i].fn = PkgFn
          /\ ~AllEqual(Acc(i))
          /\ SeqMin(Values(Out(i))) < Scale
    /\ \E i \in ExtractCalls :
          /\ calls[i].fn = AppFn
          /\ SeqMax(Values(Acc(i))) > Scale

PkgKeywords ==
    PkgFearWords \cup PkgDesireWords \cup PkgCalmWords \cup PkgWaterWords
    \cup PkgMysteryWords \cup PkgConnectionWords \cup PkgTransformWords
    \cup {"tunnel", "underground", "exam", "test"}
AppKeywords ==
    {AppFearWords[i] : i \in 1..Len(AppFearWords)}
    \cup {AppDesireWords[i] : i \in 1..Len(AppDesireWords)}
    \cup {AppCalmWords[i] : i \in 1..Len(AppCalmWords)}
    \cup {AppMysteryWords[i] : i \in 1..Len(AppMysteryWords)}
    \cup {AppConnectionWords[i] : i \in 1..Len(AppConnectionWords)}
    \cup {AppTransformWords[i] : i \in 1..Len(AppTransformWords)}
    \cup {"exam", "test", "water", "sea", "ocean"}
\* the text of call i matches no keyword of the extractor called
MatchesNone(i) ==
    IF calls[i].fn = PkgFn
    THEN FindAllWords(Lower(calls[i].args[1])) \cap PkgKeywords = {}
    ELSE \A w \in AppKeywords : ~Contains(Lower(calls[i].args[1]), w)
\* the vector an extractor returns when nothing matched
BaselineOf(fn) ==
    IF fn = PkgFn THEN [k \in 1..6 |-> <<Dims[k], Scale>>]
    ELSE [k \in 1..6 |-> <<Dims[k], Frac(2, 10)>>]

\* C4: for the empty text, a blank text and every text that matches no
\* keyword, the extractor raises nothing (no division by zero) and returns
\* one fixed vector, the same for all such texts; in emotion_model.py this
\* is also the result whenever the six accumulated values are equal.
Thm_C4 ==
    \A i \in ExtractCalls :
        (\/ IsBlank(calls[i].args[1])
         \/ MatchesNone(i)
         \/ (calls[i].fn = PkgFn /\ AllEqual(Acc(i)))) =>
            /\ calls[i].ret.raised = ""
            /\ Out(i) = BaselineOf(calls[i].fn)

\* both extractors were applied to a blank, non-empty text
Witness_C4 ==
    /\ dream_text = " "
    /\ \E i \in ExtractCalls : calls[i].fn = PkgFn /\ MatchesNone(i)
    /\ \E i \in ExtractCalls : calls[i].fn = AppFn /\ MatchesNone(i)

\* the emotion vector the extractor of call i gives the round-trip sentence
\* once its last word, "light.", is taken away
WithoutLight(i) ==
    IF calls[i].fn = PkgFn
    THEN Get(PkgRuleBasedEmotionModel(RoundTripNoLight).value, "emotions")
    ELSE Get(AppRuleBasedEmotionModel(RoundTripNoLight).value, "emotions")
BaseOf(fn) == IF fn = PkgFn THEN PkgBase ELSE AppBase

\* C5 as stated: on the round-trip sentence the output is above the base
\* value in Fear, in Connection, in Calm or Mystery, and in Transformation
\* or Calm by a contribution of the word "light" (the value is larger with
\* the word than without it).
Cex_C5 ==
    \A i \in ExtractCalls :
        calls[i].args[1] = RoundTripText =>
            LET o == Out(i)
                b == BaseOf(calls[i].fn)
                w == WithoutLight(i)
            IN  /\ Get(o, "Fear") > b
                /\ Get(o, "Connection") > b
                /\ (Get(o, "Calm") > b \/ Get(o, "Mystery") > b)
                /\ \/ (Get(o, "Transformation") > b
                        /\ Get(o, "Transformation") > Get(w, "Transformation"))
                   \/ (Get(o, "Calm") > b /\ Get(o, "Calm") > Get(w, "Calm"))

\* C5 amended: on the round-trip sentence Fear, Connection, Calm and Mystery
\* are raised above the value of an unmatched dimension (by afraid, falling,
\* dark; friend; ocean), while "light" contributes nothing: the output is
\* the same with and without the word, and Transformation and Desire keep
\* the value of an unmatched dimension, the smallest of the vector.
Thm_C5 ==
    \A i \in ExtractCalls :
        calls[i].args[1] = RoundTripText =>
            LET o == Out(i)
                low == SeqMin(Values(o))
            IN  /\ o = WithoutLight(i)
                /\ Get(Acc(i), "Transformation") = BaseOf(calls[i].fn)
                /\ Get(Acc(i), "Desire") = BaseOf(calls[i].fn)
                /\ Get(o, "Transformation") = low
                /\ Get(o, "Desire") = low
                /\ \A k \in {"Fear", "Connection", "Calm", "Mystery"} : Get(o, k) > low

\* both extractors were applied to the round-trip sentence
Witness_C5 ==
    /\ \E i \in ExtractCalls : calls[i].fn = PkgFn /\ calls[i].args[1] = RoundTripText
    /\ \E i \in ExtractCalls : calls[i].fn = AppFn /\ calls[i].args[1] = RoundTripText

-----------------------------------------------------------------------------
(* Properties of the request and of the poster engines                     *)

\* the positions of the script after the model has been selected
AfterSelect == {"unpack", "charts", "poster1", "poster2", "done", "crashed"}

\* the remote analysis failed: the call raised, answered text that is not
\* JSON, or answered JSON lacking a required field or an emotion dimension
RemoteFailed(reply) ==
    \/ reply.kind \in {"raise", "text"}
    \/ /\ reply.kind = "json"
       /\ \/ reply.data.type # "object"
          \/ \E k \in 1..5 : ~HasKey(reply.data.members, RequiredFields[k])
          \/ \E k \in 1..6 : ~HasKey(Get(reply.data.members, "emotions"), Dims[k])

\* C2: when the remote analysis raises, answers non-JSON text, or answers
\* JSON lacking any required field, the request is completed with the local
\* rule-based result, the model label is the fallback label, and no error
\* reaches the caller.  The code validates only "emotions"; a reply lacking
\* symbolic_summary or a tarot_* field is accepted and the script then stops
\* with a KeyError.
Cex_C2 ==
    (client /\ response # None /\ RemoteFailed(response) /\ pc \in AfterSelect)
        => /\ pc # "crashed"
           /\ used_model = FallbackLabel
           /\ ai_result = AppRuleBasedEmotionModel(dream_text).value

\* the log entries of one variation
OfVariation(v) == {i \in 1..Len(calls) : calls[i][2] = v}

\* C6 (as claimed): the seed is a function of the dream text that depends on
\* the text: the same text yields the same seed, and once two different
\* texts have been posted their first-variation seeds are not all one value.
Cex_C6 ==
    /\ \A i, j \in OfVariation(1) : calls[i][1] = calls[j][1] => calls[i][3] = calls[j][3]
    /\ (\E i, j \in OfVariation(1) : calls[i][1] # calls[j][1])
          => \E i, j \in OfVariation(1) : calls[i][3] # calls[j][3]

\* C6 (amended): the seed handed to poster generation does not depend on the
\* dream text: the first variation is always seeded with 0 and the second
\* with 7, so the same text always yields the same seeds, and so do
\* different texts.
Thm_C6 ==
    /\ \A i \in OfVariation(1) : calls[i][3] = 0
    /\ \A i \in OfVariation(2) : calls[i][3] = 7
    /\ \A k \in 1..Len(figs) : figs[k].args.seed = (IF k = 1 THEN 0 ELSE 7)

\* C6 witness: two different texts have been posted, with the same seed
Witness_C6 ==
    \E i, j \in OfVariation(1) : calls[i][1] # calls[j][1] /\ calls[i][3] = calls[j][3]

\* the image and the accent layer of a figure
FieldOf(fig) == fig.artists[1]
AccentLayer(fig) == SubSeq(fig.artists, 2, Len(fig.artists))

\* C7: in one request the two variations are generated with the identical
\* emotion vector and style, their seeds differ by a fixed nonzero offset
\* (7 in the code), and their background fields are identical.
Thm_C7 ==
    (pc = "done" /\ multi_variation) =>
        /\ Len(figs) = 2
        /\ figs[1].args.emotions = emotions /\ figs[2].args.emotions = emotions
        /\ figs[1].args.style = poster_style /\ figs[2].args.style = poster_style
        /\ figs[2].args.seed - figs[1].args.seed = 7
        /\ FieldOf(figs[1].fig) = FieldOf(figs[2].fig)

\* C7 witness: a request with two variations whose accent layers differ
Witness_C7 ==
    /\ pc = "done" /\ multi_variation /\ Len(figs) = 2
    /\ AccentLayer(figs[1].fig) # AccentLayer(figs[2].fig)
    /\ FieldOf(figs[1].fig) = FieldOf(figs[2].fig)

\* the drawings of the history made by one function
DrawingsOf(fn) == {i \in 1..Len(calls) : calls[i].fn = fn}

\* the seed of the other variation
OtherSeed(seed) == IF seed = 0 THEN 7 ELSE 0

\* the other variation of a recorded poster of generator.py: the same
\* emotions and style, the other seed
GenTwin(c) == GenHybridPoster(c.before, c.args[1], c.args[2], OtherSeed(c.args[3])).fig

\* C8 (as claimed): for every style the two variations have non-identical
\* accent layers.
Cex_C8 ==
    \A i \in DrawingsOf("generator.generate_hybrid_poster") :
        AccentLayer(calls[i].ret) # AccentLayer(GenTwin(calls[i]))

\* C8 (amended): for Hybrid, Geometric Focus and every unrecognised style
\* the two variations (seeds 0 and 7, emotion values in [0, 1]) have
\* non-identical accent layers over the identical field; for Aura Focus the
\* composer draws no accents and both accent layers are empty.
Thm_C8 ==
    \A i \in DrawingsOf("generator.generate_hybrid_poster") :
        LET c == calls[i]
            twin == GenTwin(c)
        IN  /\ FieldOf(c.ret) = FieldOf(twin)
            /\ IF c.args[2] = "Aura Focus"
               THEN AccentLayer(c.ret) = <<>> /\ AccentLayer(twin) = <<>>
               ELSE AccentLayer(c.ret) # AccentLayer(twin)

\* C8 witness: a poster of a style with accents, and one of Aura Focus
Witness_C8 ==
    \E i \in DrawingsOf("generator.generate_hybrid_poster") :
        /\ calls[i].args[2] = "Geometric Focus"
        /\ Len(AccentLayer(calls[i].ret)) > 0
        /\ Len(AccentLayer(GenTwin(calls[i]))) > 0

\* generator states a call may find
FoundStates == RngStates \cup {Random(g).g : g \in RngStates}

\* a recorded accent call made again, finding the generator in state g
Redrawn(c, g) ==
    IF c.fn = "generator.draw_geometric_accents"
    THEN GenGeometricAccents(g, c.args[1], c.args[2], c.args[3]).patches
    ELSE AppGeometricLayer(g, c.args[1], c.args[2]).patches

\* C9: a call of the accent layer with the same (emotions, seed,
\* density_scale) draws the identical list of shapes whatever state earlier
\* draws left the generator in.
Thm_C9 ==
    \A i \in DrawingsOf("generator.draw_geometric_accents")
                \cup DrawingsOf("app.generate_geometric_layer") :
        \A g \in FoundStates : calls[i].ret = Redrawn(calls[i], g)

\* C9 witness: shapes drawn by a call that found the generator seeded
\* otherwise, or already drawn from
Witness_C9 ==
    \E i \in DrawingsOf("generator.draw_geometric_accents") :
        /\ calls[i].before # RandomSeed(calls[i].args[2])
        /\ Len(calls[i].ret) > 0

\* C10: for every style string that is not one of the three recognised
\* styles the composer applies the Hybrid parameters: the same field opacity
\* and the same accent density_scale, so the same figure.
Thm_C10 ==
    /\ \A i \in DrawingsOf("generator.generate_hybrid_poster") :
          LET c == calls[i]
          IN  c.args[2] \notin SelectboxStyles =>
                 /\ GenStyleParams(c.args[2]) = GenStyleParams("Hybrid")
                 /\ c.ret = GenHybridPoster(c.before, c.args[1], "Hybrid", c.args[3]).fig
    /\ \A i \in DrawingsOf("app.generate_hybrid_poster") :
          LET c == calls[i]
          IN  c.args[2] \notin SelectboxStyles =>
                 /\ AppStyleAlpha(c.args[2]) = AppStyleAlpha("Hybrid")
                 /\ c.ret = AppHybridPoster(c.before, c.args[1], "Hybrid", c.args[3]).fig

\* C10 witness: a poster with accents drawn for a style that is not recognised
Witness_C10 ==
    \E i \in DrawingsOf("generator.generate_hybrid_poster") :
        /\ calls[i].args[2] = "Neon"
        /\ Len(AccentLayer(calls[i].ret)) > 0

-----------------------------------------------------------------------------
(* Properties of the style policy                                          *)

\* the field opacity (hundredths) the stated policy allows for a style
OpacityInPolicy(style, alpha) ==
    IF style = "Aura Focus" THEN alpha \in 95..98
    ELSE IF style = "Hybrid" THEN alpha \in 85..90
    ELSE alpha \in 65..80

\* the accent density (tenths; no accents is density zero) the stated policy
\* allows for a style
DensityInPolicy(style, accents, density) ==
    IF style = "Aura Focus" THEN ~accents \/ density \in 0..2
    ELSE IF style = "Hybrid" THEN accents /\ density = 9
    ELSE accents /\ density \in 14..15

\* the composer of generator.py follows the stated policy
GeneratorInPolicy ==
    \A i \in DrawingsOf("generator.generate_hybrid_poster") :
        LET c == calls[i]
            p == GenStyleParams(c.args[2])
        IN  c.args[2] \in SelectboxStyles =>
               /\ FieldOf(c.ret).alpha = p.alpha
               /\ OpacityInPolicy(c.args[2], p.alpha)
               /\ DensityInPolicy(c.args[2], p.accents, p.density)
               /\ (~p.accents => AccentLayer(c.ret) = <<>>)

\* the accent layer app.py draws for the same emotions and seed in another style
AppLayerInStyle(c, style) ==
    AccentLayer(AppHybridPoster(c.before, c.args[1], style, c.args[3]).fig)

\* C11: the style policy is Aura Focus opacity 0.95-0.98 and density very low
\* or zero, Hybrid 0.85-0.90 and about 0.9, Geometric Focus 0.65-0.80 and
\* 1.4-1.5, so opacity strictly decreases and accent density strictly
\* increases from Aura Focus to Hybrid to Geometric Focus.  The composer of
\* app.py uses 0.9, 0.75 and 0.6 and draws the same geometric layer in every
\* style.
Cex_C11 ==
    /\ GeneratorInPolicy
    /\ \A i \in DrawingsOf("app.generate_hybrid_poster") :
          LET c == calls[i]
          IN  c.args[2] \in SelectboxStyles =>
                 /\ OpacityInPolicy(c.args[2], FieldOf(c.ret).alpha)
                 /\ AppLayerInStyle(c, "Aura Focus") # AppLayerInStyle(c, "Geometric Focus")

-----------------------------------------------------------------------------
(* Properties of the input check                                           *)

\* the submitted texts that hold nothing but whitespace
BlankTexts == {"", " ", " \n"}

\* C12: a dream text that is empty or only whitespace is rejected with a
\* warning and no core step runs for it: no analysis is requested, no
\* emotion vector is extracted and no poster is composed.
Thm_C12 ==
    (runs > 0 /\ dream_text \in BlankTexts) =>
        /\ pc = "warned"
        /\ response = None
        /\ ai_result = None
        /\ used_model = ""
        /\ emotions = None
        /\ figs = <<>>

\* a whitespace-only text is rejected in a session that composed posters before
Witness_C12 ==
    /\ pc = "warned"
    /\ dream_text = " \n"
    /\ runs = 2
    /\ calls # <<>>

-----------------------------------------------------------------------------
(* Properties of the emotion vector handed to the charts and the composer  *)

\* the script positions at which the emotion vector is in use
VectorInUse == pc \in {"charts", "poster1", "poster2", "done"}

\* C13: the emotion vector that reaches the poster composer always has all
\* six dimensions present and every value within [0, 1], including a vector
\* returned by the remote analysis service.  The validation of the remote
\* reply checks the six keys and no value.
Cex_C13 ==
    VectorInUse =>
        /\ \A k \in 1..6 : HasKey(emotions, Dims[k])
        /\ \A k \in 1..6 : Get(emotions, Dims[k]) \in 0..Scale

-----------------------------------------------------------------------------
(* Properties of the drawing order                                         *)

\* the recorded calls of either composer
PosterDrawings ==
    DrawingsOf("app.generate_hybrid_poster") \cup DrawingsOf("generator.generate_hybrid_poster")

\* C14: in every poster generation and for every style the field is drawn
\* before any accent shape: the first thing on the axes is the field image
\* and everything drawn after it is an accent patch.
Thm_C14 ==
    \A i \in PosterDrawings :
        LET artists == calls[i].ret.artists
        IN  /\ Len(artists) >= 1
            /\ artists[1].kind = "image"
            /\ \A k \in 2..Len(artists) : artists[k].kind = "patch"

\* a poster of generator.py with several accent shapes over its field
Witness_C14 ==
    \E i \in DrawingsOf("generator.generate_hybrid_poster") :
        /\ calls[i].args[2] = "Geometric Focus"
        /\ Len(calls[i].ret.artists) > 3

-----------------------------------------------------------------------------
(* Properties of the number of candidate accent shapes                     *)

\* the largest constant tried for base_count and extra_per_unit
MaxConstant == 16

\* the Transformation values the count is compared over
TransformationSamples == {0, Frac(1, 4), Frac(1, 2), Frac(3, 4), Scale}

\* the candidate shapes of the recorded call when Transformation is t and
\* density_scale is density
Candidates(c, t, density) ==
    GenGeometricAccents(c.before, Put(c.args[1], "Transformation", t),
                        c.args[2], density).passes

\* base + floor(extra * t * density), density in tenths
ClaimedCount(base, extra, t, density) == base + (extra * t * density) \div (10 * Scale)

\* C15 (as claimed): the number of candidate accent shapes equals base_count
\* + floor(extra_per_unit * Transformation * density_scale) for constants
\* base_count and extra_per_unit that do not depend on density_scale.
Cex_C15 ==
    \A i \in DrawingsOf("generator.draw_geometric_accents") :
        LET c == calls[i]
            count == [t \in {0, Get(c.args[1], "Transformation")}, d \in Densities |->
                          IF t = Get(c.args[1], "Transformation") /\ d = c.args[3]
                          THEN c.passes ELSE Candidates(c, t, d)]
        IN  \E base \in 0..MaxConstant, extra \in 0..MaxConstant :
              \A t \in {0, Get(c.args[1], "Transformation")}, d \in Densities :
                  count[t, d] = ClaimedCount(base, extra, t, d)

\* C15 (amended): the number of candidate accent shapes equals
\* floor(5 * density_scale) + floor(8 * Transformation * density_scale): the
\* base part is scaled by density_scale too; the count is non-decreasing in
\* Transformation.
Thm_C15 ==
    \A i \in DrawingsOf("generator.draw_geometric_accents") :
        LET c == calls[i]
            t == Get(c.args[1], "Transformation")
            d == c.args[3]
        IN  /\ c.passes = (5 * d) \div 10 + (8 * t * d) \div (10 * Scale)
            /\ \A t2 \in TransformationSamples :
                  /\ t2 >= t => Candidates(c, t2, d) >= c.passes
                  /\ t2 <= t => Candidates(c, t2, d) <= c.passes

\* a call at density_scale 1.5 whose base part is 7 and whose
\* Transformation adds candidates
Witness_C15 ==
    \E i \in DrawingsOf("generator.draw_geometric_accents") :
        /\ calls[i].args[3] = 15
        /\ calls[i].passes > 7
        /\ Len(calls[i].ret) > 0

-----------------------------------------------------------------------------
(* Properties of the accent shapes' sizes                                  *)

\* every value of the vector lies in [0, 1]
InUnitRange(e) == \A k \in 1..Len(e) : e[k][2] \in 0..Scale

\* the rectangles a recorded call added to the axes
RectsOf(c) ==
    IF c.fn \in {"app.generate_hybrid_poster", "generator.generate_hybrid_poster"}
    THEN [k \in 1..Len(AccentLayer(c.ret)) |-> AccentLayer(c.ret)[k].data]
    ELSE c.ret

\* the width and the height of a rectangle are positive: in generator.py they
\* are base_size times a factor each, in app.py 1 / cells times a factor each
PositiveSize(fn, rect) ==
    IF fn \in {"generator.generate_hybrid_poster", "generator.draw_geometric_accents"}
    THEN /\ rect.base_size > 0
         /\ rect.w_factor > 0
         /\ rect.h_factor > 0
    ELSE /\ rect.cells > 0
         /\ rect.width > 0
         /\ rect.height > 0

-----------------------------------------------------------------------------
(* Properties of the reading and of the symbols                            *)

CallsOf(fn) == {i \in 1..Len(calls) : calls[i].fn = fn}

\* the guidance text when the three dimensions qualify as given: one
\* sentence each in the order Transformation, Calm, Connection, or the
\* default sentence
GuidanceFor(transformation, calm, connection) ==
    LET parts == (IF transformation THEN <<GuidanceTransformation>> ELSE <<>>)
                 \o (IF calm THEN <<GuidanceCalm>> ELSE <<>>)
                 \o (IF connection THEN <<GuidanceConnection>> ELSE <<>>)
    IN  Join(" ", IF parts = <<>> THEN <<GuidanceDefault>> ELSE parts)

\* C17 (as claimed): the guidance holds, in the order Transformation, Calm,
\* Connection, one sentence for each of these dimensions whose value exceeds
\* 0.5 (exactly 0.5 does not qualify), and the default sentence if and only
\* if none qualifies.
Cex_C17 ==
    \A i \in CallsOf("analyzer.generate_tarot_reading") :
        LET e == calls[i].args[2]
        IN  calls[i].ret.guidance =
                GuidanceFor(Get(e, "Transformation") > Frac(1, 2),
                            Get(e, "Calm") > Frac(1, 2),
                            Get(e, "Connection") > Frac(1, 2))

\* C17 (amended): a dimension qualifies when its value is at least 0.5, a
\* value of exactly 0.5 included; the order, the default sentence and the
\* non-empty text are as claimed.
Thm_C17 ==
    \A i \in CallsOf("analyzer.generate_tarot_reading") :
        LET e == calls[i].args[2]
        IN  /\ calls[i].ret.guidance =
                   GuidanceFor(Get(e, "Transformation") >= Frac(1, 2),
                               Get(e, "Calm") >= Frac(1, 2),
                               Get(e, "Connection") >= Frac(1, 2))
            /\ calls[i].ret.guidance # ""

\* a reading for a vector whose Calm is exactly 0.5 and whose Transformation
\* and Connection are below it: the Calm sentence alone
Witness_C17 ==
    \E i \in CallsOf("analyzer.generate_tarot_reading") :
        /\ Get(calls[i].args[2], "Calm") = Frac(1, 2)
        /\ Get(calls[i].args[2], "Transformation") < Frac(1, 2)
        /\ Get(calls[i].args[2], "Connection") < Frac(1, 2)
        /\ calls[i].ret.guidance = GuidanceCalm

\* the table keywords that occur in the lower-cased text
Occurring(text) ==
    {SymbolKeys[k] : k \in {j \in 1..Len(SymbolKeys) : Contains(Lower(text), SymbolKeys[j])}}

\* the result lists every occurring keyword, each once
ListsEachOnce(text, symbols) ==
    /\ {symbols[k] : k \in 1..Len(symbols)} = Occurring(text)
    /\ \A j, k \in 1..Len(symbols) : j # k => symbols[j] # symbols[k]

\* the listed keywords follow the order of the table, "white dress" first
InTableOrder(symbols) ==
    LET Rank(key) == IF key = "white dress" THEN 0
                     ELSE CHOOSE k \in 1..Len(SymbolKeys) : SymbolKeys[k] = key
    IN  \A j, k \in 1..Len(symbols) : j < k => Rank(symbols[j]) < Rank(symbols[k])

\* C18: symbol detection returns every table keyword that occurs as a
\* substring of the lower-cased text, each at most once, listed in the order
\* of their first appearance in the text.  The code lists them in the order
\* of its table, "white dress" first.
Cex_C18 ==
    \A i \in CallsOf("analyzer.analyze_symbols") :
        LET text_lower == Lower(calls[i].args[1])
            symbols == calls[i].ret
        IN  /\ ListsEachOnce(calls[i].args[1], symbols)
            /\ \A j, k \in 1..Len(symbols) :
                  j < k => FindIndex(text_lower, symbols[j]) < FindIndex(text_lower, symbols[k])

\* what the code does keep: every occurring keyword once, in table order
SymbolsInTableOrder ==
    \A i \in CallsOf("analyzer.analyze_symbols") :
        /\ ListsEachOnce(calls[i].args[1], calls[i].ret)
        /\ InTableOrder(calls[i].ret)

-----------------------------------------------------------------------------
(* Properties of the colormap choice                                       *)

\* the ramp each condition selects
RampOf == [fear_mystery |-> "twilight_shifted", desire_conn |-> "plasma", calm |-> "viridis"]

\* the orders in which the three conditions can be checked
CheckOrders ==
    {o \in [1..3 -> DOMAIN RampOf] : \A j, k \in 1..3 : j # k => o[j] # o[k]}

\* the ramp chosen when the conditions are checked in the order o
ChosenInOrder(conds, o) ==
    IF conds[o[1]] THEN RampOf[o[1]]
    ELSE IF conds[o[2]] THEN RampOf[o[2]]
    ELSE IF conds[o[3]] THEN RampOf[o[3]]
    ELSE "magma"

\* C19: for every emotion vector with all values in [0, 1] at most one of
\* the three colormap conditions holds, so the colormap chosen is one of
\* four ramps and is the same in whatever order the conditions are checked.
Thm_C19 ==
    \A i \in CallsOf("generator.choose_cmap") :
        LET e == calls[i].args[1]
            conds == CmapConditions(e)
        IN  InUnitRange(e) =>
               /\ Cardinality({c \in DOMAIN RampOf : conds[c]}) <= 1
               /\ calls[i].ret \in {"twilight_shifted", "plasma", "viridis", "magma"}
               /\ \A o \in CheckOrders : ChosenInOrder(conds, o) = calls[i].ret

\* the colormap of the vector whose Fear+Mystery share is exactly 0.55 and
\* whose Calm share is exactly 0.45: neither exceeds its threshold
Witness_C19 ==
    \E i \in CallsOf("generator.choose_cmap") :
        LET e == calls[i].args[1]
        IN  /\ Get(e, "Fear") = Frac(11, 20)
            /\ Get(e, "Calm") = Frac(9, 20)
            /\ SeqSum(Values(e)) = Scale
            /\ calls[i].ret = "magma"

-----------------------------------------------------------------------------
(* Properties of the rule-based vectors' total                             *)

\* C20: for every input text the emotion vector a rule-based extractor
\* produces sums to at least 0.6, so on the local analysis path the
\* low-energy glow of the field (added only when the sum of the six values
\* is below 0.6) is never applied.
Thm_C20 ==
    \A i \in ExtractCalls :
        /\ calls[i].ret.raised = ""
        /\ 10 * SeqSum(Values(Out(i))) >= 6 * Scale
        /\ ~GenAuraField(Out(i)).center_glow

\* both extractors were applied to a text without any keyword; the vector
\* of app.py then holds nothing but its base values and sums to 1.2
Witness_C20 ==
    /\ dream_text = "zebra zebra"
    /\ \E i \in ExtractCalls : calls[i].fn = PkgFn /\ AllEqual(Out(i))
    /\ \E i \in ExtractCalls : calls[i].fn = AppFn /\ SeqSum(Values(Out(i))) = Frac(12, 10)

====
